---------------------------- MODULE Spec2Model ----------------------------
(***************************************************************************)
(* Model of haystack/components/generators/chat/hugging_face_api.py:       *)
(* the HuggingFaceAPIChatGenerator component (run / run_async, streaming   *)
(* and non-streaming paths) and its module-level converters.               *)
(*                                                                         *)
(* Python values are modelled as follows.                                  *)
(*   Optional[T]   : None is <<>>, a present value x is <<x>>.             *)
(*   message text  : a TLA+ string; "".join is \o.                         *)
(*   JSON payloads : tagged records [t |-> type, <type> |-> value]; a str  *)
(*                   that holds JSON text is a sequence of lexical tokens. *)
(*   datetime.now(): the "received_at" stamp is left out of chunk meta.    *)
(***************************************************************************)
EXTENDS Naturals, Sequences, FiniteSets, TLC

VARIABLES
    self,               \* the component: [tools, streaming_callback]
    pc,                 \* where the invocation in progress stands
    call,               \* <<>> or <<arguments of the invocation in progress>>
    frame,              \* arguments run / run_async passed on to the _run_* method
    requests,           \* chat_completion requests issued by this invocation
    api_output,         \* vendor events pulled from the stream so far
    api_chat_output,    \* None or <<the vendor's response to a non-streaming request>>
    fault,              \* None or <<what the vendor or the callback raised>>
    streaming_chunks,   \* the streaming_chunks list of _run_streaming(_async)
    callback_log,       \* invocations of the streaming callback, in order
    log,                \* warnings logged by this invocation
    outcome,            \* how the invocation ended: returned replies or raised error
    tc_input,           \* hfapi_tool_calls handed to _convert_hfapi_tool_calls
    tc_result,          \* what that call produced: tool_calls and the warnings logged
    tc_pc,              \* "ready" before that call, "done" after it
    fr_choice,          \* the choice handed to _map_hf_finish_reason_to_haystack
    fr_result,          \* what that call returned
    fr_pc,              \* "ready" before that call, "done" after it
    init_args,          \* the arguments of HuggingFaceAPIChatGenerator(...)
    environ,            \* None or <<value of the HF_API_TOKEN environment variable>>
    built,              \* None or <<the component __init__ constructed>>
    init_error,         \* "" or the error __init__ raised
    serialized,         \* None or <<what to_dict returned>>
    restored,           \* None or <<what from_dict returned>>
    sent_kwargs,        \* the calls made so far: what was given, what chat_completion got
    caller_kwargs,      \* the caller's generation_kwargs object, as the caller now sees it
    second,             \* None or <<a second component built from the same object>>
    init_pc             \* "new", "built", "failed", "serialized", "restored", "called",
                        \* "rebuilt"

varsC == <<self, pc, call, frame, requests, api_output, api_chat_output, fault,
          streaming_chunks, callback_log, log, outcome>>
varsT == <<tc_input, tc_result, tc_pc>>
varsF == <<fr_choice, fr_result, fr_pc>>
varsH == <<init_args, environ, built, init_error, serialized, restored, sent_kwargs,
           caller_kwargs, second, init_pc>>
varsP == <<varsT, varsF, varsH>>
vars == <<varsC, varsP>>

\* ------------------------------------------------------------------ Optional
None == <<>>
Some(x) == <<x>>
IsNone(o) == o = <<>>
Get(o) == o[1]

\* ------------------------------------------------------------ Python values
PyNone == [t |-> "NoneType"]
PyBool(b) == [t |-> "bool", bool |-> b]
PyInt(n) == [t |-> "int", int |-> n]
PyStr(toks) == [t |-> "str", str |-> toks]
PyList(xs) == [t |-> "list", list |-> xs]
PyDict(kvs) == [t |-> "dict", dict |-> kvs]

\* Python truthiness of a value (bool(x)).
Truthy(x) ==
    CASE x.t = "NoneType" -> FALSE
      [] x.t = "bool" -> x.bool
      [] x.t = "int" -> x.int # 0
      [] x.t = "str" -> x.str # <<>>
      [] x.t = "list" -> x.list # <<>>
      [] x.t = "dict" -> x.dict # <<>>

\* ------------------------------------------------------------------- JSON
\* json.loads over a token sequence: the lexical tokens of the text.
NumberTokens == {"0", "1"}
NumberOf(tok) == IF tok = "0" THEN 0 ELSE 1
StringTokens == {"\"\"", "\"k\"", "\"x\""}
StringOf(tok) == IF tok = "\"\"" THEN <<>> ELSE IF tok = "\"k\"" THEN <<"k">> ELSE <<"x">>

JsonFail == [ok |-> FALSE, val |-> PyNone, next |-> 0]
JsonOk(val, next) == [ok |-> TRUE, val |-> val, next |-> next]

RECURSIVE parse_value(_, _)
RECURSIVE parse_elements(_, _, _)
RECURSIVE parse_members(_, _, _)

parse_value(s, i) ==
    IF i > Len(s) THEN JsonFail
    ELSE LET c == s[i] IN
         CASE c = "null" -> JsonOk(PyNone, i + 1)
           [] c = "true" -> JsonOk(PyBool(TRUE), i + 1)
           [] c = "false" -> JsonOk(PyBool(FALSE), i + 1)
           [] c \in NumberTokens -> JsonOk(PyInt(NumberOf(c)), i + 1)
           [] c \in StringTokens -> JsonOk(PyStr(StringOf(c)), i + 1)
           [] c = "[" ->
                IF i + 1 <= Len(s) /\ s[i + 1] = "]"
                THEN JsonOk(PyList(<<>>), i + 2)
                ELSE parse_elements(s, i + 1, <<>>)
           [] c = "{" ->
                IF i + 1 <= Len(s) /\ s[i + 1] = "}"
                THEN JsonOk(PyDict(<<>>), i + 2)
                ELSE parse_members(s, i + 1, <<>>)
           [] OTHER -> JsonFail

parse_elements(s, i, acc) ==
    LET r == parse_value(s, i) IN
    IF ~r.ok \/ r.next > Len(s) THEN JsonFail
    ELSE IF s[r.next] = "," THEN parse_elements(s, r.next + 1, Append(acc, r.val))
    ELSE IF s[r.next] = "]" THEN JsonOk(PyList(Append(acc, r.val)), r.next + 1)
    ELSE JsonFail

parse_members(s, i, acc) ==
    IF i + 1 > Len(s) \/ s[i] \notin StringTokens \/ s[i + 1] # ":" THEN JsonFail
    ELSE LET r == parse_value(s, i + 2)
             kv == <<StringOf(s[i]), r.val>>
         IN IF ~r.ok \/ r.next > Len(s) THEN JsonFail
            ELSE IF s[r.next] = "," THEN parse_members(s, r.next + 1, Append(acc, kv))
            ELSE IF s[r.next] = "}" THEN JsonOk(PyDict(Append(acc, kv)), r.next + 1)
            ELSE JsonFail

\* json.loads(text): the decoded value, or ok = FALSE for json.JSONDecodeError
\* (no value, or text left over after the value).
json_loads(s) ==
    LET r == parse_value(s, 1) IN
    IF r.ok /\ r.next = Len(s) + 1 THEN r ELSE JsonFail

\* --------------------------------------------------- _convert_hfapi_tool_calls
\* ToolCall(tool_name=..., arguments=..., id=...): a plain dataclass, no validation.
ToolCall(tool_name, arguments, id) ==
    [tool_name |-> tool_name, arguments |-> arguments, id |-> id]

\* logger.warning(...) of lines 73-79 and 81-87.
Warning(kind, hfapi_tc) ==
    [kind |-> kind, id |-> hfapi_tc.id, name |-> hfapi_tc.function.name]

\* A loop body that skips a record with malformed JSON without logging.
ToolCallIterationSilent(hfapi_tc, acc) ==
    LET hf_arguments == hfapi_tc.function.arguments
        decoded == IF hf_arguments.t = "str" THEN json_loads(hf_arguments.str) ELSE JsonFail
        arguments ==
            IF hf_arguments.t = "dict" THEN hf_arguments
            ELSE IF hf_arguments.t = "str" /\ decoded.ok THEN decoded.val
            ELSE PyNone
        logged ==
            IF hf_arguments.t = "dict" THEN <<>>
            ELSE IF hf_arguments.t = "str" THEN <<>>
            ELSE <<Warning("invalid type", hfapi_tc)>>
    IN [tool_calls |->
            IF Truthy(arguments)
            THEN Append(acc.tool_calls,
                        ToolCall(hfapi_tc.function.name, arguments, hfapi_tc.id))
            ELSE acc.tool_calls,
        warnings |-> acc.warnings \o logged]

\* A loop body that inserts at the front of tool_calls instead of appending.
ToolCallIterationPrepend(hfapi_tc, acc) ==
    LET hf_arguments == hfapi_tc.function.arguments
        decoded == IF hf_arguments.t = "str" THEN json_loads(hf_arguments.str) ELSE JsonFail
        arguments ==
            IF hf_arguments.t = "dict" THEN hf_arguments
            ELSE IF hf_arguments.t = "str" /\ decoded.ok THEN decoded.val
            ELSE PyNone
    IN [tool_calls |->
            IF Truthy(arguments)
            THEN <<ToolCall(hfapi_tc.function.name, arguments, hfapi_tc.id)>> \o acc.tool_calls
            ELSE acc.tool_calls,
        warnings |-> acc.warnings]

\* The body of "for hfapi_tc in hfapi_tool_calls" (lines 64-90) on the running
\* tool_calls list and the log.
ToolCallIteration(hfapi_tc, acc) ==
    LET hf_arguments == hfapi_tc.function.arguments
        decoded == IF hf_arguments.t = "str" THEN json_loads(hf_arguments.str) ELSE JsonFail
        arguments ==
            IF hf_arguments.t = "dict" THEN hf_arguments
            ELSE IF hf_arguments.t = "str" /\ decoded.ok THEN decoded.val
            ELSE PyNone
        logged ==
            IF hf_arguments.t = "dict" THEN <<>>
            ELSE IF hf_arguments.t = "str"
                 THEN IF decoded.ok THEN <<>> ELSE <<Warning("malformed JSON", hfapi_tc)>>
            ELSE <<Warning("invalid type", hfapi_tc)>>
    IN [tool_calls |->
            IF Truthy(arguments)
            THEN Append(acc.tool_calls,
                        ToolCall(hfapi_tc.function.name, arguments, hfapi_tc.id))
            ELSE acc.tool_calls,
        warnings |-> acc.warnings \o logged]

RECURSIVE ToolCallLoop(_, _, _)
ToolCallLoop(hfapi_tool_calls, i, acc) ==
    IF i > Len(hfapi_tool_calls) THEN acc
    ELSE ToolCallLoop(hfapi_tool_calls, i + 1, ToolCallIteration(hfapi_tool_calls[i], acc))

\* _convert_hfapi_tool_calls(hfapi_tool_calls): the returned list, and what was logged.
_convert_hfapi_tool_calls(hfapi_tool_calls) ==
    IF IsNone(hfapi_tool_calls) \/ Get(hfapi_tool_calls) = <<>>
    THEN [tool_calls |-> <<>>, warnings |-> <<>>]
    ELSE ToolCallLoop(Get(hfapi_tool_calls), 1, [tool_calls |-> <<>>, warnings |-> <<>>])

\* A ChatCompletionOutputToolCall.
HfToolCall(idname, hf_arguments) ==
    [id |-> idname[1], function |-> [name |-> idname[2], arguments |-> hf_arguments]]

\* ------------------------------------------------------- _convert_tools_to_hfapi_tools
\* A Tool is modelled by its name; a Toolset iterates as the list of its tools.
_convert_tools_to_hfapi_tools(tools) ==
    IF IsNone(tools) \/ Get(tools) = <<>> THEN None
    ELSE Some([i \in 1..Len(Get(tools)) |->
                  [type |-> "function", function |-> [name |-> Get(tools)[i]]]])

\* --------------------------------------------------- _map_hf_finish_reason_to_haystack
\* A mapper that looks the vendor string up without testing for tool calls.
MapFinishReasonVendorOnly(choice) ==
    IF IsNone(choice.finish_reason) THEN None
    ELSE LET reason == Get(choice.finish_reason)
         IN IF reason = "length" THEN Some("length")
            ELSE IF reason = "eos_token" THEN Some("stop")
            ELSE IF reason = "stop_sequence" THEN Some("stop")
            ELSE Some("stop")

\* Lines 132-149.
_map_hf_finish_reason_to_haystack(choice) ==
    IF IsNone(choice.finish_reason) THEN None
    ELSE LET has_tool_calls ==
                 ~IsNone(choice.delta.tool_calls) \/ ~IsNone(choice.delta.tool_call_id)
             reason == Get(choice.finish_reason)
         IN IF has_tool_calls THEN Some("tool_calls")
            ELSE IF reason = "length" THEN Some("length")
            ELSE IF reason = "eos_token" THEN Some("stop")
            ELSE IF reason = "stop_sequence" THEN Some("stop")
            ELSE Some("stop")

\* ------------------------------------------------------------------ StreamingChunk
\* StreamingChunk(content=..., meta=...) with every other field at the dataclass
\* default: no index, start False, no finish_reason.
StreamingChunk(content, meta) ==
    [content |-> content, meta |-> meta, index |-> None, start |-> FALSE,
     finish_reason |-> None]

\* "x or ''" on an Optional[str].
OrEmpty(content) == IF IsNone(content) \/ Get(content) = "" THEN "" ELSE Get(content)

\* A translator that leaves the usage of an event without choices out.
ConvertChunkUsageDropped(chunk, previous_chunks) ==
    IF Len(chunk.choices) = 0
    THEN StreamingChunk("", [model |-> chunk.model, usage |-> None])
    ELSE LET choice == chunk.choices[1]
             truthy_reason ==
                 ~IsNone(choice.finish_reason) /\ Get(choice.finish_reason) # ""
             mapped_finish_reason ==
                 IF truthy_reason THEN _map_hf_finish_reason_to_haystack(choice) ELSE None
         IN [content |-> OrEmpty(choice.delta.content),
             meta |-> [model |-> chunk.model, finish_reason |-> choice.finish_reason],
             index |-> IF IsNone(choice.finish_reason) THEN Some(0) ELSE None,
             start |-> Len(previous_chunks) = 0,
             finish_reason |-> mapped_finish_reason]

\* A translator that marks every chunk of a choice-carrying event as the start.
ConvertChunkAlwaysStart(chunk, previous_chunks) ==
    IF Len(chunk.choices) = 0
    THEN LET usage ==
                 IF ~IsNone(chunk.usage)
                 THEN Some([prompt_tokens |-> Get(chunk.usage).prompt_tokens,
                            completion_tokens |-> Get(chunk.usage).completion_tokens])
                 ELSE None
         IN StreamingChunk("", [model |-> chunk.model, usage |-> usage])
    ELSE LET choice == chunk.choices[1]
             truthy_reason ==
                 ~IsNone(choice.finish_reason) /\ Get(choice.finish_reason) # ""
             mapped_finish_reason ==
                 IF truthy_reason THEN _map_hf_finish_reason_to_haystack(choice) ELSE None
         IN [content |-> OrEmpty(choice.delta.content),
             meta |-> [model |-> chunk.model, finish_reason |-> choice.finish_reason],
             index |-> IF IsNone(choice.finish_reason) THEN Some(0) ELSE None,
             start |-> TRUE,
             finish_reason |-> mapped_finish_reason]

\* A translator that reads the last choice of the event instead of the first.
ConvertChunkLastChoice(chunk, previous_chunks) ==
    IF Len(chunk.choices) = 0
    THEN LET usage ==
                 IF ~IsNone(chunk.usage)
                 THEN Some([prompt_tokens |-> Get(chunk.usage).prompt_tokens,
                            completion_tokens |-> Get(chunk.usage).completion_tokens])
                 ELSE None
         IN StreamingChunk("", [model |-> chunk.model, usage |-> usage])
    ELSE LET choice == chunk.choices[Len(chunk.choices)]
             truthy_reason ==
                 ~IsNone(choice.finish_reason) /\ Get(choice.finish_reason) # ""
             mapped_finish_reason ==
                 IF truthy_reason THEN _map_hf_finish_reason_to_haystack(choice) ELSE None
         IN [content |-> OrEmpty(choice.delta.content),
             meta |-> [model |-> chunk.model, finish_reason |-> choice.finish_reason],
             index |-> IF IsNone(choice.finish_reason) THEN Some(0) ELSE None,
             start |-> Len(previous_chunks) = 0,
             finish_reason |-> mapped_finish_reason]

\* _convert_chat_completion_stream_output_to_streaming_chunk(chunk, previous_chunks)
_convert_chat_completion_stream_output_to_streaming_chunk(chunk, previous_chunks) ==
    IF Len(chunk.choices) = 0
    THEN LET usage ==
                 IF ~IsNone(chunk.usage)
                 THEN Some([prompt_tokens |-> Get(chunk.usage).prompt_tokens,
                            completion_tokens |-> Get(chunk.usage).completion_tokens])
                 ELSE None
         IN StreamingChunk("", [model |-> chunk.model, usage |-> usage])
    ELSE LET choice == chunk.choices[1]
             truthy_reason ==
                 ~IsNone(choice.finish_reason) /\ Get(choice.finish_reason) # ""
             mapped_finish_reason ==
                 IF truthy_reason THEN _map_hf_finish_reason_to_haystack(choice) ELSE None
         IN [content |-> OrEmpty(choice.delta.content),
             meta |-> [model |-> chunk.model, finish_reason |-> choice.finish_reason],
             index |-> IF IsNone(choice.finish_reason) THEN Some(0) ELSE None,
             start |-> Len(previous_chunks) = 0,
             finish_reason |-> mapped_finish_reason]

\* ---------------------------------------- _convert_streaming_chunks_to_chat_message
\* meta.get("usage") of a chunk: None when the key is missing.
MetaUsage(meta) == IF "usage" \in DOMAIN meta THEN meta.usage ELSE None

RECURSIVE JoinContents(_)
JoinContents(chunks) ==
    IF chunks = <<>> THEN "" ELSE chunks[1].content \o JoinContents(Tail(chunks))

\* The chunks that carry a usage object.
UsageChunks(chunks) == SelectSeq(chunks, LAMBDA c : ~IsNone(MetaUsage(c.meta)))

ChatMessage(text, tool_calls, meta) ==
    [role |-> "assistant", text |-> text, tool_calls |-> tool_calls, meta |-> meta]

\* The fold of a finished stream: the text is the ordered concatenation of the
\* chunk contents, the usage that of the last chunk carrying one (None if none
\* did), and there are no tool calls.
_convert_streaming_chunks_to_chat_message(chunks) ==
    LET with_usage == UsageChunks(chunks)
        usage == IF with_usage = <<>> THEN None
                 ELSE with_usage[Len(with_usage)].meta.usage
    IN ChatMessage(Some(JoinContents(chunks)), <<>>, [usage |-> usage])

\* ------------------------------------------------------------- call-entry helpers
\* _check_duplicate_tool_names(tools): TRUE when it raises.
_check_duplicate_tool_names(tools) ==
    \E i, j \in 1..Len(tools) : i # j /\ tools[i] = tools[j]

IsCoroutine(callback) == callback \in {"init_async_callback", "async_callback"}

\* select_streaming_callback(init_callback, runtime_callback, requires_async):
\* the call-time callback when given, else the instance default; ok = FALSE when
\* the selected callback does not match the call's sync/async mode.
select_streaming_callback(init_callback, runtime_callback, requires_async) ==
    LET selected == IF ~IsNone(runtime_callback) THEN runtime_callback ELSE init_callback
    IN [ok |-> IsNone(selected) \/ (IsCoroutine(Get(selected)) <=> requires_async),
        callback |-> selected]

\* "tools or self.tools" and "if tools" on Optional[List[Tool]].
ToolsTruthy(tools) == ~IsNone(tools) /\ Get(tools) # <<>>
ToolsOr(tools, other) == IF ToolsTruthy(tools) THEN tools ELSE other
ToolsList(tools) == IF ToolsTruthy(tools) THEN Get(tools) ELSE <<>>

\* ------------------------------------------------------------- the component
\* A construction check that rejects duplicate names only.
InitRaisesDuplicatesOnly(tools, streaming_callback) ==
    _check_duplicate_tool_names(ToolsList(tools))

\* __init__ (lines 332-334): TRUE when construction raises for these arguments.
InitRaises(tools, streaming_callback) ==
    \/ ToolsTruthy(tools) /\ ~IsNone(streaming_callback)
    \/ _check_duplicate_tool_names(ToolsList(tools))

InitToolsArgs == { None, Some(<<>>), Some(<<"t1">>), Some(<<"t1", "t2">>), Some(<<"t1", "t1">>) }
InitCallbackArgs == { None, Some("init_callback"), Some("init_async_callback") }

\* Every component __init__ can return (lines 346 and 355).
Components ==
    { [tools |-> t, streaming_callback |-> c] :
        <<t, c>> \in { x \in InitToolsArgs \X InitCallbackArgs : ~InitRaises(x[1], x[2]) } }

\* Arguments of a call.
RunToolsArgs == { None, Some(<<>>), Some(<<"t1">>), Some(<<"t1", "t1">>) }
RunCallbackArgs == { None, Some("callback"), Some("async_callback") }

\* How an invocation ends.
NoOutcome == [kind |-> "none", replies |-> <<>>, error |-> ""]
Returned(replies) == [kind |-> "returned", replies |-> replies, error |-> ""]
Raised(error) == [kind |-> "raised", replies |-> <<>>, error |-> error]

ToolsStreamingError == "ValueError: Using tools and streaming at the same time is not supported"
DuplicateToolsError == "ValueError: Duplicate tool names found"
CallbackModeError == "ValueError: callback does not match the call's sync/async mode"
CallbackError == "error raised by the streaming callback"
TransportErrors == { "HfHubHTTPError", "ConnectionError" }

NoFrame == [streaming_callback |-> None, tools |-> None]

ComponentIdle ==
    /\ pc = "idle"
    /\ call = None
    /\ frame = NoFrame
    /\ requests = <<>>
    /\ api_output = <<>>
    /\ api_chat_output = None
    /\ fault = None
    /\ streaming_chunks = <<>>
    /\ callback_log = <<>>
    /\ log = <<>>
    /\ outcome = NoOutcome

RaiseAtEntry(error) ==
    /\ pc' = "done"
    /\ outcome' = Raised(error)
    /\ frame' = NoFrame

Dispatch(target, streaming_callback, hf_tools) ==
    /\ pc' = target
    /\ outcome' = NoOutcome
    /\ frame' = [streaming_callback |-> streaming_callback, tools |-> hf_tools]

\* run that resolves the callback from the instance default alone.
RunInstanceCallbackOnly(tools_arg, streaming_callback_arg) ==
    /\ pc = "idle"
    /\ call' = Some([method |-> "run", tools |-> tools_arg,
                     streaming_callback |-> streaming_callback_arg])
    /\ LET tools == ToolsOr(tools_arg, self.tools)
           selected == select_streaming_callback(self.streaming_callback, None, FALSE)
       IN IF ToolsTruthy(tools) /\ ~IsNone(self.streaming_callback)
          THEN RaiseAtEntry(ToolsStreamingError)
          ELSE IF _check_duplicate_tool_names(ToolsList(tools))
          THEN RaiseAtEntry(DuplicateToolsError)
          ELSE IF ~selected.ok
          THEN RaiseAtEntry(CallbackModeError)
          ELSE IF ~IsNone(selected.callback)
          THEN Dispatch("_run_streaming", selected.callback, None)
          ELSE Dispatch("_run_non_streaming", None, _convert_tools_to_hfapi_tools(tools))
    /\ UNCHANGED <<self, requests, api_output, api_chat_output, fault, streaming_chunks,
                   callback_log, log, varsP>>

\* run with the duplicate-names check ahead of the tools-with-callback check.
RunDuplicatesFirst(tools_arg, streaming_callback_arg) ==
    /\ pc = "idle"
    /\ call' = Some([method |-> "run", tools |-> tools_arg,
                     streaming_callback |-> streaming_callback_arg])
    /\ LET tools == ToolsOr(tools_arg, self.tools)
           selected == select_streaming_callback(self.streaming_callback,
                                                 streaming_callback_arg, FALSE)
       IN IF _check_duplicate_tool_names(ToolsList(tools))
          THEN RaiseAtEntry(DuplicateToolsError)
          ELSE IF ToolsTruthy(tools) /\ ~IsNone(self.streaming_callback)
          THEN RaiseAtEntry(ToolsStreamingError)
          ELSE IF ~selected.ok
          THEN RaiseAtEntry(CallbackModeError)
          ELSE IF ~IsNone(selected.callback)
          THEN Dispatch("_run_streaming", selected.callback, None)
          ELSE Dispatch("_run_non_streaming", None, _convert_tools_to_hfapi_tools(tools))
    /\ UNCHANGED <<self, requests, api_output, api_chat_output, fault, streaming_chunks,
                   callback_log, log, varsP>>

\* run (lines 414-437), up to the call of _run_streaming / _run_non_streaming.
Run(tools_arg, streaming_callback_arg) ==
    /\ pc = "idle"
    /\ call' = Some([method |-> "run", tools |-> tools_arg,
                     streaming_callback |-> streaming_callback_arg])
    /\ LET tools == ToolsOr(tools_arg, self.tools)
           selected == select_streaming_callback(self.streaming_callback,
                                                 streaming_callback_arg, FALSE)
       IN IF ToolsTruthy(tools) /\ ~IsNone(self.streaming_callback)
          THEN RaiseAtEntry(ToolsStreamingError)
          ELSE IF _check_duplicate_tool_names(ToolsList(tools))
          THEN RaiseAtEntry(DuplicateToolsError)
          ELSE IF ~selected.ok
          THEN RaiseAtEntry(CallbackModeError)
          ELSE IF ~IsNone(selected.callback)
          THEN Dispatch("_run_streaming", selected.callback, None)
          ELSE Dispatch("_run_non_streaming", None, _convert_tools_to_hfapi_tools(tools))
    /\ UNCHANGED <<self, requests, api_output, api_chat_output, fault, streaming_chunks,
                   callback_log, log, varsP>>

\* run_async (lines 468-489), up to the await of _run_streaming_async /
\* _run_non_streaming_async.
RunAsync(tools_arg, streaming_callback_arg) ==
    /\ pc = "idle"
    /\ call' = Some([method |-> "run_async", tools |-> tools_arg,
                     streaming_callback |-> streaming_callback_arg])
    /\ LET tools == ToolsOr(tools_arg, self.tools)
           selected == select_streaming_callback(self.streaming_callback,
                                                 streaming_callback_arg, TRUE)
       IN IF ToolsTruthy(tools) /\ ~IsNone(self.streaming_callback)
          THEN RaiseAtEntry(ToolsStreamingError)
          ELSE IF _check_duplicate_tool_names(ToolsList(tools))
          THEN RaiseAtEntry(DuplicateToolsError)
          ELSE IF ~selected.ok
          THEN RaiseAtEntry(CallbackModeError)
          ELSE IF ~IsNone(selected.callback)
          THEN Dispatch("_run_streaming_async", selected.callback, None)
          ELSE Dispatch("_run_non_streaming_async", None, _convert_tools_to_hfapi_tools(tools))
    /\ UNCHANGED <<self, requests, api_output, api_chat_output, fault, streaming_chunks,
                   callback_log, log, varsP>>

\* ---------------------------------------------------------------- vendor data
MaxEvents == 3

Usage(prompt_tokens, completion_tokens) ==
    [prompt_tokens |-> prompt_tokens, completion_tokens |-> completion_tokens]

Delta(content, tool_calls, tool_call_id) ==
    [content |-> content, tool_calls |-> tool_calls, tool_call_id |-> tool_call_id]

StreamChoice(delta, finish_reason) == [delta |-> delta, finish_reason |-> finish_reason]

StreamOutput(choices, usage) == [model |-> "model-id", choices |-> choices, usage |-> usage]

\* ChatCompletionStreamOutput events the vendor may send.
StreamEvents ==
    { StreamOutput(<<>>, None),
      StreamOutput(<<>>, Some(Usage(3, 5))),
      StreamOutput(<<>>, Some(Usage(7, 2))),
      StreamOutput(<<StreamChoice(Delta(None, None, None), None)>>, None),
      StreamOutput(<<StreamChoice(Delta(Some("a"), None, None), None),
                     StreamChoice(Delta(Some("z"), None, None), None)>>, None),
      StreamOutput(<<StreamChoice(Delta(Some("b"), None, None), Some("eos_token"))>>,
                   Some(Usage(4, 6))),
      StreamOutput(<<StreamChoice(Delta(Some(""), None, None), Some(""))>>, None),
      StreamOutput(<<StreamChoice(Delta(None, Some(<<"fragment">>), Some("call_1")),
                                  Some("stop_sequence"))>>, None) }

OutputChoice(content, tool_calls, finish_reason, index) ==
    [message |-> [content |-> content, tool_calls |-> tool_calls],
     finish_reason |-> finish_reason, index |-> index]

TextChoice == OutputChoice(Some("hi"), None, "eos_token", 0)
ToolChoice ==
    OutputChoice(None,
                 Some(<<HfToolCall(<<"call_1", "f">>, PyStr(<<"{", "\"k\"", ":", "1", "}">>)),
                        HfToolCall(<<"call_2", "g">>, PyStr(<<"{", "bad", "json">>))>>),
                 "stop_sequence", 0)
OtherChoice == OutputChoice(Some("other"), None, "length", 1)

\* ChatCompletionOutput responses the vendor may send.
ChatOutputs ==
    { [choices |-> c, usage |-> u] :
        c \in { None, Some(<<>>), Some(<<TextChoice>>), Some(<<ToolChoice>>),
                Some(<<ToolChoice, OtherChoice>>), Some(<<OtherChoice, TextChoice>>) },
        u \in { None, Some(Usage(3, 5)) } }

\* self._client.model / self._async_client.model: the model or url given at construction.
ClientModel == "model-or-url"

\* ---------------------------------------------------------------- _run_streaming
Request(client, stream, tools) == [client |-> client, stream |-> stream, tools |-> tools]

Invocation(callback, awaited, chunk) ==
    [callback |-> callback, awaited |-> awaited, chunk |-> chunk]

ZeroUsage == Usage(0, 0)

\* message.meta["usage"] = usage
SetUsage(message, usage) ==
    [message EXCEPT !.meta = [k \in DOMAIN message.meta \cup {"usage"} |->
                                 IF k = "usage" THEN usage ELSE message.meta[k]]]

\* Lines 513-517 without the default of line 515.
StreamingRepliesNoDefault(chunks) ==
    <<_convert_streaming_chunks_to_chat_message(chunks)>>

\* Lines 513-517 with the zero usage set whatever the fold found.
StreamingRepliesZeroUsage(chunks) ==
    <<SetUsage(_convert_streaming_chunks_to_chat_message(chunks), Some(ZeroUsage))>>

\* Lines 513-517: fold the chunks, default the usage, wrap the message.
StreamingReplies(chunks) ==
    LET message == _convert_streaming_chunks_to_chat_message(chunks)
    IN IF IsNone(MetaUsage(message.meta))
       THEN <<SetUsage(message, Some(ZeroUsage))>>
       ELSE <<message>>

\* A streaming request that passes the effective tools of the call on.
RunStreamingRequestWithTools ==
    /\ pc = "_run_streaming"
    /\ requests' = Append(requests,
                          Request("_client", TRUE,
                                  _convert_tools_to_hfapi_tools(
                                      ToolsOr(Get(call).tools, self.tools))))
    /\ pc' = "_run_streaming:for"
    /\ UNCHANGED <<self, call, frame, api_output, api_chat_output, fault, streaming_chunks,
                   callback_log, log, outcome, varsP>>

\* Lines 497-502: self._client.chat_completion(messages, stream=True, ...).
RunStreamingRequest ==
    /\ pc = "_run_streaming"
    /\ requests' = Append(requests, Request("_client", TRUE, None))
    /\ pc' = "_run_streaming:for"
    /\ UNCHANGED <<self, call, frame, api_output, api_chat_output, fault, streaming_chunks,
                   callback_log, log, outcome, varsP>>

\* Lines 506-510: the for loop pulls the next event, translates it, appends it.
RunStreamingNext(chunk) ==
    /\ pc = "_run_streaming:for"
    /\ Len(api_output) < MaxEvents
    /\ api_output' = Append(api_output, chunk)
    /\ streaming_chunks' =
           Append(streaming_chunks,
                  _convert_chat_completion_stream_output_to_streaming_chunk(
                      chunk, streaming_chunks))
    /\ pc' = "_run_streaming:callback"
    /\ UNCHANGED <<self, call, frame, requests, api_chat_output, fault, callback_log, log,
                   outcome, varsP>>

\* The loop moves on without invoking the callback.
RunStreamingCallbackSkipped ==
    /\ pc = "_run_streaming:callback"
    /\ pc' = "_run_streaming:for"
    /\ UNCHANGED <<self, call, frame, requests, api_output, api_chat_output, fault,
                   streaming_chunks, callback_log, log, outcome, varsP>>

\* Line 511: streaming_callback(streaming_chunk) returns.
RunStreamingCallback ==
    /\ pc = "_run_streaming:callback"
    /\ callback_log' = Append(callback_log,
                              Invocation(frame.streaming_callback, FALSE,
                                         streaming_chunks[Len(streaming_chunks)]))
    /\ pc' = "_run_streaming:for"
    /\ UNCHANGED <<self, call, frame, requests, api_output, api_chat_output, fault,
                   streaming_chunks, log, outcome, varsP>>

\* The callback's error is swallowed and the chunks gathered so far are returned.
RunStreamingCallbackRaisesSwallowed ==
    /\ pc = "_run_streaming:callback"
    /\ callback_log' = Append(callback_log,
                              Invocation(frame.streaming_callback, FALSE,
                                         streaming_chunks[Len(streaming_chunks)]))
    /\ fault' = Some(CallbackError)
    /\ outcome' = Returned(StreamingReplies(streaming_chunks))
    /\ pc' = "done"
    /\ UNCHANGED <<self, call, frame, requests, api_output, api_chat_output, streaming_chunks,
                   log, varsP>>

\* Line 511: streaming_callback(streaming_chunk) raises.
RunStreamingCallbackRaises ==
    /\ pc = "_run_streaming:callback"
    /\ callback_log' = Append(callback_log,
                              Invocation(frame.streaming_callback, FALSE,
                                         streaming_chunks[Len(streaming_chunks)]))
    /\ fault' = Some(CallbackError)
    /\ outcome' = Raised(CallbackError)
    /\ pc' = "done"
    /\ UNCHANGED <<self, call, frame, requests, api_output, api_chat_output, streaming_chunks,
                   log, varsP>>

\* Lines 497 and 506: the request or the vendor stream raises.
RunStreamingFails(error) ==
    /\ pc = "_run_streaming:for"
    /\ fault' = Some(error)
    /\ outcome' = Raised(error)
    /\ pc' = "done"
    /\ UNCHANGED <<self, call, frame, requests, api_output, api_chat_output, streaming_chunks,
                   callback_log, log, varsP>>

\* Lines 513-517: the stream is exhausted.
RunStreamingReturn ==
    /\ pc = "_run_streaming:for"
    /\ outcome' = Returned(StreamingReplies(streaming_chunks))
    /\ pc' = "done"
    /\ UNCHANGED <<self, call, frame, requests, api_output, api_chat_output, fault,
                   streaming_chunks, callback_log, log, varsP>>

\* ---------------------------------------------------------- _run_streaming_async
\* Lines 580-584.
StreamingRepliesAsync(chunks) ==
    LET message == _convert_streaming_chunks_to_chat_message(chunks)
    IN IF IsNone(MetaUsage(message.meta))
       THEN <<SetUsage(message, Some(ZeroUsage))>>
       ELSE <<message>>

\* The asynchronous streaming request issued on the synchronous handle.
RunStreamingAsyncRequestOnSyncClient ==
    /\ pc = "_run_streaming_async"
    /\ requests' = Append(requests, Request("_client", TRUE, None))
    /\ pc' = "_run_streaming_async:for"
    /\ UNCHANGED <<self, call, frame, api_output, api_chat_output, fault, streaming_chunks,
                   callback_log, log, outcome, varsP>>

\* Lines 564-569: await self._async_client.chat_completion(messages, stream=True, ...).
RunStreamingAsyncRequest ==
    /\ pc = "_run_streaming_async"
    /\ requests' = Append(requests, Request("_async_client", TRUE, None))
    /\ pc' = "_run_streaming_async:for"
    /\ UNCHANGED <<self, call, frame, api_output, api_chat_output, fault, streaming_chunks,
                   callback_log, log, outcome, varsP>>

\* Lines 573-577.
RunStreamingAsyncNext(chunk) ==
    /\ pc = "_run_streaming_async:for"
    /\ Len(api_output) < MaxEvents
    /\ api_output' = Append(api_output, chunk)
    /\ streaming_chunks' =
           Append(streaming_chunks,
                  _convert_chat_completion_stream_output_to_streaming_chunk(
                      chunk, streaming_chunks))
    /\ pc' = "_run_streaming_async:callback"
    /\ UNCHANGED <<self, call, frame, requests, api_chat_output, fault, callback_log, log,
                   outcome, varsP>>

\* Line 578: await streaming_callback(stream_chunk) returns.
RunStreamingAsyncCallback ==
    /\ pc = "_run_streaming_async:callback"
    /\ callback_log' = Append(callback_log,
                              Invocation(frame.streaming_callback, TRUE,
                                         streaming_chunks[Len(streaming_chunks)]))
    /\ pc' = "_run_streaming_async:for"
    /\ UNCHANGED <<self, call, frame, requests, api_output, api_chat_output, fault,
                   streaming_chunks, log, outcome, varsP>>

\* Line 578: await streaming_callback(stream_chunk) raises.
RunStreamingAsyncCallbackRaises ==
    /\ pc = "_run_streaming_async:callback"
    /\ callback_log' = Append(callback_log,
                              Invocation(frame.streaming_callback, TRUE,
                                         streaming_chunks[Len(streaming_chunks)]))
    /\ fault' = Some(CallbackError)
    /\ outcome' = Raised(CallbackError)
    /\ pc' = "done"
    /\ UNCHANGED <<self, call, frame, requests, api_output, api_chat_output, streaming_chunks,
                   log, varsP>>

\* Lines 564 and 573: the request or the vendor stream raises.
RunStreamingAsyncFails(error) ==
    /\ pc = "_run_streaming_async:for"
    /\ fault' = Some(error)
    /\ outcome' = Raised(error)
    /\ pc' = "done"
    /\ UNCHANGED <<self, call, frame, requests, api_output, api_chat_output, streaming_chunks,
                   callback_log, log, varsP>>

\* Lines 580-584: the stream is exhausted.
RunStreamingAsyncReturn ==
    /\ pc = "_run_streaming_async:for"
    /\ outcome' = Returned(StreamingRepliesAsync(streaming_chunks))
    /\ pc' = "done"
    /\ UNCHANGED <<self, call, frame, requests, api_output, api_chat_output, fault,
                   streaming_chunks, callback_log, log, varsP>>

\* ------------------------------------------------------------ _run_non_streaming
\* Lines 529-556 reading the last choice instead of the first.
NonStreamingResultLastChoice(output) ==
    IF IsNone(output.choices) \/ Len(Get(output.choices)) = 0
    THEN [replies |-> <<>>, warnings |-> <<>>]
    ELSE LET choice == Get(output.choices)[Len(Get(output.choices))]
             text == choice.message.content
             converted == _convert_hfapi_tool_calls(choice.message.tool_calls)
             usage == IF ~IsNone(output.usage)
                      THEN [prompt_tokens |-> Get(output.usage).prompt_tokens,
                            completion_tokens |-> Get(output.usage).completion_tokens]
                      ELSE [prompt_tokens |-> 0, completion_tokens |-> 0]
             meta == [model |-> "model-or-url", finish_reason |-> choice.finish_reason,
                      index |-> choice.index, usage |-> Some(usage)]
         IN [replies |-> <<[role |-> "assistant", text |-> text,
                            tool_calls |-> converted.tool_calls, meta |-> meta]>>,
             warnings |-> converted.warnings]

\* Lines 529-556: the replies built from the vendor response, and what was logged.
NonStreamingResult(output) ==
    IF IsNone(output.choices) \/ Len(Get(output.choices)) = 0
    THEN [replies |-> <<>>, warnings |-> <<>>]
    ELSE LET choice == Get(output.choices)[1]
             text == choice.message.content
             converted == _convert_hfapi_tool_calls(choice.message.tool_calls)
             usage == IF ~IsNone(output.usage)
                      THEN Usage(Get(output.usage).prompt_tokens,
                                 Get(output.usage).completion_tokens)
                      ELSE ZeroUsage
             meta == [model |-> ClientModel, finish_reason |-> choice.finish_reason,
                      index |-> choice.index, usage |-> Some(usage)]
         IN [replies |-> <<ChatMessage(text, converted.tool_calls, meta)>>,
             warnings |-> converted.warnings]

\* Lines 525-527: self._client.chat_completion(messages=messages, tools=tools, ...).
RunNonStreamingRequest ==
    /\ pc = "_run_non_streaming"
    /\ requests' = Append(requests, Request("_client", FALSE, frame.tools))
    /\ pc' = "_run_non_streaming:output"
    /\ UNCHANGED <<self, call, frame, api_output, api_chat_output, fault, streaming_chunks,
                   callback_log, log, outcome, varsP>>

\* The failed request is issued again.
RunNonStreamingFailsRetried(error) ==
    /\ pc = "_run_non_streaming:output"
    /\ fault' = Some(error)
    /\ requests' = Append(requests, Request("_client", FALSE, frame.tools))
    /\ UNCHANGED <<self, pc, call, frame, api_output, api_chat_output, streaming_chunks,
                   callback_log, log, outcome, varsP>>

\* Line 525: the request raises.
RunNonStreamingFails(error) ==
    /\ pc = "_run_non_streaming:output"
    /\ fault' = Some(error)
    /\ outcome' = Raised(error)
    /\ pc' = "done"
    /\ UNCHANGED <<self, call, frame, requests, api_output, api_chat_output, streaming_chunks,
                   callback_log, log, varsP>>

\* Lines 529-556: the response arrived.
RunNonStreamingReturn(output) ==
    /\ pc = "_run_non_streaming:output"
    /\ api_chat_output' = Some(output)
    /\ log' = log \o NonStreamingResult(output).warnings
    /\ outcome' = Returned(NonStreamingResult(output).replies)
    /\ pc' = "done"
    /\ UNCHANGED <<self, call, frame, requests, api_output, fault, streaming_chunks,
                   callback_log, varsP>>

\* Lines 596-620 without the usage of the response.
NonStreamingResultAsyncNoUsage(output) ==
    IF IsNone(output.choices) \/ Len(Get(output.choices)) = 0
    THEN [replies |-> <<>>, warnings |-> <<>>]
    ELSE LET choice == Get(output.choices)[1]
             text == choice.message.content
             converted == _convert_hfapi_tool_calls(choice.message.tool_calls)
             meta == [model |-> ClientModel, finish_reason |-> choice.finish_reason,
                      index |-> choice.index, usage |-> Some(ZeroUsage)]
         IN [replies |-> <<ChatMessage(text, converted.tool_calls, meta)>>,
             warnings |-> converted.warnings]

\* ------------------------------------------------------ _run_non_streaming_async
\* Lines 596-620.
NonStreamingResultAsync(output) ==
    IF IsNone(output.choices) \/ Len(Get(output.choices)) = 0
    THEN [replies |-> <<>>, warnings |-> <<>>]
    ELSE LET choice == Get(output.choices)[1]
             text == choice.message.content
             converted == _convert_hfapi_tool_calls(choice.message.tool_calls)
             usage == IF ~IsNone(output.usage)
                      THEN Usage(Get(output.usage).prompt_tokens,
                                 Get(output.usage).completion_tokens)
                      ELSE ZeroUsage
             meta == [model |-> ClientModel, finish_reason |-> choice.finish_reason,
                      index |-> choice.index, usage |-> Some(usage)]
         IN [replies |-> <<ChatMessage(text, converted.tool_calls, meta)>>,
             warnings |-> converted.warnings]

\* Lines 592-594: await self._async_client.chat_completion(messages=..., tools=tools, ...).
RunNonStreamingAsyncRequest ==
    /\ pc = "_run_non_streaming_async"
    /\ requests' = Append(requests, Request("_async_client", FALSE, frame.tools))
    /\ pc' = "_run_non_streaming_async:output"
    /\ UNCHANGED <<self, call, frame, api_output, api_chat_output, fault, streaming_chunks,
                   callback_log, log, outcome, varsP>>

\* Line 592: the request raises.
RunNonStreamingAsyncFails(error) ==
    /\ pc = "_run_non_streaming_async:output"
    /\ fault' = Some(error)
    /\ outcome' = Raised(error)
    /\ pc' = "done"
    /\ UNCHANGED <<self, call, frame, requests, api_output, api_chat_output, streaming_chunks,
                   callback_log, log, varsP>>

\* Lines 596-620: the response arrived.
RunNonStreamingAsyncReturn(output) ==
    /\ pc = "_run_non_streaming_async:output"
    /\ api_chat_output' = Some(output)
    /\ log' = log \o NonStreamingResultAsync(output).warnings
    /\ outcome' = Returned(NonStreamingResultAsync(output).replies)
    /\ pc' = "done"
    /\ UNCHANGED <<self, call, frame, requests, api_output, fault, streaming_chunks,
                   callback_log, varsP>>

\* The invocation has returned or raised; the caller may call again.
CallEnds ==
    /\ pc = "done"
    /\ pc' = "idle"
    /\ call' = None
    /\ frame' = NoFrame
    /\ requests' = <<>>
    /\ api_output' = <<>>
    /\ api_chat_output' = None
    /\ fault' = None
    /\ streaming_chunks' = <<>>
    /\ callback_log' = <<>>
    /\ log' = <<>>
    /\ outcome' = NoOutcome
    /\ UNCHANGED <<self, varsP>>

\* ---------------------------------------------------- specification: the component
ConverterIdle ==
    /\ tc_input = None
    /\ tc_result = [tool_calls |-> <<>>, warnings |-> <<>>]
    /\ tc_pc = "ready"

\* _map_hf_finish_reason_to_haystack has not been called.
MapperIdle ==
    /\ fr_choice = None
    /\ fr_result = None
    /\ fr_pc = "ready"

\* No constructor call, serialization or deserialization is being followed.
ConstructorIdle ==
    /\ init_args = None
    /\ environ = None
    /\ built = None
    /\ init_error = ""
    /\ serialized = None
    /\ restored = None
    /\ sent_kwargs = <<>>
    /\ caller_kwargs = None
    /\ second = None
    /\ init_pc = "new"

Init ==
    /\ self \in Components
    /\ ComponentIdle
    /\ ConverterIdle
    /\ MapperIdle
    /\ ConstructorIdle

Next ==
    \/ \E t \in RunToolsArgs, c \in RunCallbackArgs : Run(t, c)
    \/ \E t \in RunToolsArgs, c \in RunCallbackArgs : RunAsync(t, c)
    \/ RunStreamingRequest
    \/ \E chunk \in StreamEvents : RunStreamingNext(chunk)
    \/ RunStreamingCallback
    \/ RunStreamingCallbackRaises
    \/ \E error \in TransportErrors : RunStreamingFails(error)
    \/ RunStreamingReturn
    \/ RunStreamingAsyncRequest
    \/ \E chunk \in StreamEvents : RunStreamingAsyncNext(chunk)
    \/ RunStreamingAsyncCallback
    \/ RunStreamingAsyncCallbackRaises
    \/ \E error \in TransportErrors : RunStreamingAsyncFails(error)
    \/ RunStreamingAsyncReturn
    \/ RunNonStreamingRequest
    \/ \E error \in TransportErrors : RunNonStreamingFails(error)
    \/ \E output \in ChatOutputs : RunNonStreamingReturn(output)
    \/ RunNonStreamingAsyncRequest
    \/ \E error \in TransportErrors : RunNonStreamingAsyncFails(error)
    \/ \E output \in ChatOutputs : RunNonStreamingAsyncReturn(output)
    \/ CallEnds

Spec == Init /\ [][Next]_vars

\* ---------------------------------------------- inputs of the tool-call converter
MaxToolCalls == 2

\* hf_arguments as the vendor may send them: mappings, JSON text, other types.
HfArguments ==
    { PyDict(<< <<(<<"k">>), PyInt(1)>> >>),
      PyDict(<<>>),
      PyStr(<<"{", "\"k\"", ":", "1", "}">>),
      PyStr(<<"{", "}">>),
      PyStr(<<"[", "1", "]">>),
      PyStr(<<"[", "]">>),
      PyStr(<<"1">>),
      PyStr(<<"0">>),
      PyStr(<<"\"x\"">>),
      PyStr(<<"true">>),
      PyStr(<<"null">>),
      PyStr(<<"{", "bad", "json">>),
      PyStr(<<>>),
      PyInt(1),
      PyNone }

HfFunctions == { <<"call_1", "f">>, <<"call_2", "g">>, <<"call_1", "g">> }

HfToolCalls == { HfToolCall(f, a) : f \in HfFunctions, a \in HfArguments }

SeqsUpTo(S, n) == UNION { [1..k -> S] : k \in 0..n }

HfToolCallPayloads == {None} \cup { Some(s) : s \in SeqsUpTo(HfToolCalls, MaxToolCalls) }

\* ------------------------------------------- specification: tool-call converter
InitTC ==
    /\ self = [tools |-> None, streaming_callback |-> None]
    /\ ComponentIdle
    /\ tc_input \in HfToolCallPayloads
    /\ tc_result = [tool_calls |-> <<>>, warnings |-> <<>>]
    /\ tc_pc = "ready"
    /\ MapperIdle
    /\ ConstructorIdle

ConvertToolCalls ==
    /\ tc_pc = "ready"
    /\ tc_result' = _convert_hfapi_tool_calls(tc_input)
    /\ tc_pc' = "done"
    /\ UNCHANGED <<tc_input, varsC, varsF, varsH>>

NextTC == ConvertToolCalls

SpecTC == InitTC /\ [][NextTC]_vars

\* ------------------------------------------- inputs of the finish-reason mapper
\* finish_reason of a choice: absent, empty, the three vendor literals, others.
HfFinishReasons ==
    { None, Some(""), Some("length"), Some("eos_token"), Some("stop_sequence"),
      Some("content_filter"), Some("tool_calls") }

\* delta.tool_calls and delta.tool_call_id: absent, present but empty, present.
HfDeltaToolCalls == { None, Some(<<>>), Some(<<"fragment">>) }
HfDeltaToolCallIds == { None, Some(""), Some("call_1") }
HfDeltaContents == { None, Some("a") }

HfStreamChoices ==
    { StreamChoice(Delta(c, t, i), r) :
        c \in HfDeltaContents, t \in HfDeltaToolCalls, i \in HfDeltaToolCallIds,
        r \in HfFinishReasons }

\* ------------------------------------------ specification: finish-reason mapper
InitFR ==
    /\ self = [tools |-> None, streaming_callback |-> None]
    /\ ComponentIdle
    /\ ConverterIdle
    /\ ConstructorIdle
    /\ fr_choice \in HfStreamChoices
    /\ fr_result = None
    /\ fr_pc = "ready"

MapFinishReason ==
    /\ fr_pc = "ready"
    /\ fr_result' = _map_hf_finish_reason_to_haystack(fr_choice)
    /\ fr_pc' = "done"
    /\ UNCHANGED <<fr_choice, varsC, varsT, varsH>>

NextFR == MapFinishReason

SpecFR == InitFR /\ [][NextFR]_vars

\* ------------------------------------------------------------------- dict
\* A Dict[str, Any] is a function from its keys to its values.
EmptyDict == [k \in {} |-> ""]

\* d.get(k)
DictGet(d, k) == IF k \in DOMAIN d THEN Some(d[k]) ELSE None

\* {**d, **o}
DictMerge(d, o) == [k \in DOMAIN d \cup DOMAIN o |-> IF k \in DOMAIN o THEN o[k] ELSE d[k]]

\* d[k] = v
DictSet(d, k, v) == [j \in DOMAIN d \cup {k} |-> IF j = k THEN v ELSE d[j]]

\* ------------------------------------------------ collaborators of __init__
\* HFGenerationAPIType: the members and their string values (lines 274-278).
HFGenerationAPITypeMembers ==
    { "TEXT_GENERATION_INFERENCE", "INFERENCE_ENDPOINTS", "SERVERLESS_INFERENCE_API" }

\* str(member)
EnumValue(member) ==
    CASE member = "TEXT_GENERATION_INFERENCE" -> "text_generation_inference"
      [] member = "INFERENCE_ENDPOINTS" -> "inference_endpoints"
      [] member = "SERVERLESS_INFERENCE_API" -> "serverless_inference_api"

\* An api_type argument: a str or a member of HFGenerationAPIType.
ApiTypeStr(value) == [kind |-> "str", value |-> value]
ApiTypeEnum(member) == [kind |-> "enum", value |-> member]

\* HFGenerationAPIType.from_str(value): ok = FALSE when it raises ValueError.
from_str(value) ==
    IF \E m \in HFGenerationAPITypeMembers : EnumValue(m) = value
    THEN [ok |-> TRUE,
          api_type |-> ApiTypeEnum(CHOOSE m \in HFGenerationAPITypeMembers : EnumValue(m) = value)]
    ELSE [ok |-> FALSE, api_type |-> ApiTypeStr(value)]

\* Model ids the hub knows as generation models.
HubModels == { "org/chat-model" }

\* check_valid_model(model, HFModelType.GENERATION, token): TRUE when it raises.
check_valid_model(model) == model \notin HubModels

\* is_valid_http_url(url)
is_valid_http_url(url) == url \in { "https://host/v1", "http://localhost:8080" }

\* Secret.from_env_var([...], strict=False)
EnvVarSecret == [secret |-> "EnvVarSecret", variables |-> <<"HF_API_TOKEN", "HF_TOKEN">>,
                 strict |-> FALSE]

\* secret.resolve_value(): the value found in the environment, None when unset.
resolve_value(secret, env) == env

\* secret.to_dict() and Secret.from_dict(...): the reference, never the value.
secret_to_dict(secret) ==
    [type |-> "env_var", env_vars |-> secret.variables, strict |-> secret.strict]
secret_from_dict(data) ==
    [secret |-> "EnvVarSecret", variables |-> data.env_vars, strict |-> data.strict]

\* Callables that can be bound as a streaming callback.
Callables == { "init_callback", "init_async_callback", "callback", "async_callback" }

\* serialize_callable(callable): its module-qualified name.
serialize_callable(callback) == "callbacks." \o callback

\* deserialize_callable(name): the callable that name resolves to.
deserialize_callable(name) == CHOOSE f \in Callables : serialize_callable(f) = name

\* serialize_tools_or_toolset(tools) and deserialize_tools_or_toolset_inplace.
serialize_tools_or_toolset(tools) ==
    IF IsNone(tools) THEN None
    ELSE Some([i \in 1..Len(Get(tools)) |->
                  [type |-> "haystack.tools.tool.Tool", data |-> [name |-> Get(tools)[i]]]])
deserialize_tools_or_toolset(data) ==
    IF IsNone(data) THEN None
    ELSE Some([i \in 1..Len(Get(data)) |-> Get(data)[i].data.name])

\* InferenceClient(model_or_url, token=..., **resolved_api_params) and its async twin.
InferenceClient(model_or_url, token, params) ==
    [class |-> "InferenceClient", model |-> model_or_url, token |-> token, params |-> params]
AsyncInferenceClient(model_or_url, token, params) ==
    [class |-> "AsyncInferenceClient", model |-> model_or_url, token |-> token,
     params |-> params]

\* ------------------------------------------------------------------- __init__
DefaultMaxTokens == 512

UnknownApiTypeError == "ValueError: Unknown Hugging Face API type"
MissingModelError == "ValueError: you need to specify the model parameter in api_params"
InvalidModelError == "ValueError: model not valid for generation"
MissingUrlError == "ValueError: you need to specify the url parameter in api_params"
InvalidUrlError == "ValueError: Invalid URL"

InitRaised(error) == [ok |-> FALSE, error |-> error, component |-> None]
InitReturned(component) == [ok |-> TRUE, error |-> "", component |-> Some(component)]

\* Lines 336-340 with the stop_words put in front of the given stop list.
InitGenerationKwargsStopWordsFirst(generation_kwargs, stop_words) ==
    LET copied == IF generation_kwargs # None /\ DOMAIN Get(generation_kwargs) # {}
                  THEN Get(generation_kwargs) ELSE EmptyDict
        stop == IF "stop" \in DOMAIN copied THEN copied.stop ELSE <<>>
        extended == DictSet(copied, "stop",
                            (IF stop_words # None THEN Get(stop_words) ELSE <<>>) \o stop)
    IN IF "max_tokens" \in DOMAIN extended THEN extended
       ELSE DictSet(extended, "max_tokens", DefaultMaxTokens)

\* Lines 336-340: copy generation_kwargs, merge stop_words into "stop", default
\* "max_tokens".
InitGenerationKwargs(generation_kwargs, stop_words) ==
    LET copied == IF generation_kwargs # None /\ DOMAIN Get(generation_kwargs) # {}
                  THEN Get(generation_kwargs) ELSE EmptyDict
        stop == IF "stop" \in DOMAIN copied THEN copied.stop ELSE <<>>
        extended == DictSet(copied, "stop",
                            stop \o (IF stop_words # None THEN Get(stop_words) ELSE <<>>))
    IN IF "max_tokens" \in DOMAIN extended THEN extended
       ELSE DictSet(extended, "max_tokens", DefaultMaxTokens)

\* "generation_kwargs.copy() if generation_kwargs else {}" (line 337) copies the
\* mapping, not the list under "stop": the copy and the caller's object share it
\* when the caller's object is non-empty and has the key.
SharesStopList(generation_kwargs) ==
    /\ generation_kwargs # None
    /\ DOMAIN Get(generation_kwargs) # {}
    /\ "stop" \in DOMAIN Get(generation_kwargs)

\* Lines 337-339 as the caller sees them: the caller's generation_kwargs object
\* after construction. extend (line 339) appends the stop_words to the list the
\* copy holds, which is the caller's list when it is shared.
InitCallerKwargs(generation_kwargs, stop_words) ==
    IF SharesStopList(generation_kwargs)
    THEN Some(DictSet(Get(generation_kwargs), "stop",
                      Get(generation_kwargs).stop
                          \o (IF stop_words # None THEN Get(stop_words) ELSE <<>>)))
    ELSE generation_kwargs

\* Lines 306-330 without the URL validation of lines 325-326.
InitModelOrUrlUnvalidated(api_type_arg, api_params) ==
    LET converted == IF api_type_arg.kind = "str" THEN from_str(api_type_arg.value)
                     ELSE [ok |-> TRUE, api_type |-> api_type_arg]
        api_type == converted.api_type
        model == DictGet(api_params, "model")
        url == DictGet(api_params, "url")
        failed(error) == [ok |-> FALSE, error |-> error, api_type |-> api_type,
                          model_or_url |-> ""]
    IN IF ~converted.ok THEN failed(UnknownApiTypeError)
       ELSE IF api_type.value = "SERVERLESS_INFERENCE_API"
       THEN IF model = None THEN failed(MissingModelError)
            ELSE IF check_valid_model(Get(model)) THEN failed(InvalidModelError)
            ELSE [ok |-> TRUE, error |-> "", api_type |-> api_type, model_or_url |-> Get(model)]
       ELSE IF api_type.value \in { "INFERENCE_ENDPOINTS", "TEXT_GENERATION_INFERENCE" }
       THEN IF url = None THEN failed(MissingUrlError)
            ELSE [ok |-> TRUE, error |-> "", api_type |-> api_type, model_or_url |-> Get(url)]
       ELSE failed(UnknownApiTypeError)

\* Lines 306-330: the api_type and the model or url, or the error raised.
InitModelOrUrl(api_type_arg, api_params) ==
    LET converted == IF api_type_arg.kind = "str" THEN from_str(api_type_arg.value)
                     ELSE [ok |-> TRUE, api_type |-> api_type_arg]
        api_type == converted.api_type
        model == DictGet(api_params, "model")
        url == DictGet(api_params, "url")
        failed(error) == [ok |-> FALSE, error |-> error, api_type |-> api_type,
                          model_or_url |-> ""]
    IN IF ~converted.ok THEN failed(UnknownApiTypeError)
       ELSE IF api_type.value = "SERVERLESS_INFERENCE_API"
       THEN IF model = None THEN failed(MissingModelError)
            ELSE IF check_valid_model(Get(model)) THEN failed(InvalidModelError)
            ELSE [ok |-> TRUE, error |-> "", api_type |-> api_type, model_or_url |-> Get(model)]
       ELSE IF api_type.value \in { "INFERENCE_ENDPOINTS", "TEXT_GENERATION_INFERENCE" }
       THEN IF url = None THEN failed(MissingUrlError)
            ELSE IF ~is_valid_http_url(Get(url)) THEN failed(InvalidUrlError)
            ELSE [ok |-> TRUE, error |-> "", api_type |-> api_type, model_or_url |-> Get(url)]
       ELSE failed(UnknownApiTypeError)

\* HuggingFaceAPIChatGenerator(api_type, api_params, token, generation_kwargs,
\* stop_words, streaming_callback, tools) in the environment env.
__init__(args, env) ==
    LET target == InitModelOrUrl(args.api_type, args.api_params)
        resolved_api_params ==
            [k \in DOMAIN args.api_params \ {"model", "url"} |-> args.api_params[k]]
        resolved_token ==
            IF args.token # None THEN resolve_value(Get(args.token), env) ELSE None
    IN IF ~target.ok THEN InitRaised(target.error)
       ELSE IF ToolsTruthy(args.tools) /\ args.streaming_callback # None
       THEN InitRaised(ToolsStreamingError)
       ELSE IF _check_duplicate_tool_names(ToolsList(args.tools))
       THEN InitRaised(DuplicateToolsError)
       ELSE InitReturned(
                [api_type |-> target.api_type,
                 api_params |-> args.api_params,
                 token |-> args.token,
                 generation_kwargs |->
                     InitGenerationKwargs(args.generation_kwargs, args.stop_words),
                 streaming_callback |-> args.streaming_callback,
                 _client |-> InferenceClient(target.model_or_url, resolved_token,
                                             resolved_api_params),
                 _async_client |-> AsyncInferenceClient(target.model_or_url, resolved_token,
                                                        resolved_api_params),
                 tools |-> args.tools])

\* ---------------------------------------------------------- to_dict / from_dict
\* A to_dict that writes the member name of the api_type instead of its value.
ToDictMemberName(component) ==
    LET callback_name ==
            IF component.streaming_callback # None
            THEN Some(serialize_callable(Get(component.streaming_callback)))
            ELSE None
    IN [type |-> "haystack.components.generators.chat.hugging_face_api.HuggingFaceAPIChatGenerator",
        init_parameters |->
            [api_type |-> component.api_type.value,
             api_params |-> component.api_params,
             token |-> IF component.token # None
                       THEN Some(secret_to_dict(Get(component.token))) ELSE None,
             generation_kwargs |-> component.generation_kwargs,
             streaming_callback |-> callback_name,
             tools |-> serialize_tools_or_toolset(component.tools)]]

\* A to_dict that writes the token the client was built with.
ToDictResolvedToken(component) ==
    LET callback_name ==
            IF component.streaming_callback # None
            THEN Some(serialize_callable(Get(component.streaming_callback)))
            ELSE None
    IN [type |-> "haystack.components.generators.chat.hugging_face_api.HuggingFaceAPIChatGenerator",
        init_parameters |->
            [api_type |-> EnumValue(component.api_type.value),
             api_params |-> component.api_params,
             token |-> component._client.token,
             generation_kwargs |-> component.generation_kwargs,
             streaming_callback |-> callback_name,
             tools |-> serialize_tools_or_toolset(component.tools)]]

\* to_dict (lines 364-373).
to_dict(component) ==
    LET callback_name ==
            IF component.streaming_callback # None
            THEN Some(serialize_callable(Get(component.streaming_callback)))
            ELSE None
    IN [type |-> "haystack.components.generators.chat.hugging_face_api.HuggingFaceAPIChatGenerator",
        init_parameters |->
            [api_type |-> EnumValue(component.api_type.value),
             api_params |-> component.api_params,
             token |-> IF component.token # None
                       THEN Some(secret_to_dict(Get(component.token))) ELSE None,
             generation_kwargs |-> component.generation_kwargs,
             streaming_callback |-> callback_name,
             tools |-> serialize_tools_or_toolset(component.tools)]]

\* from_dict (lines 380-386): what cls(**init_parameters) returns or raises.
from_dict(data, env) ==
    LET init_params == data.init_parameters
    IN __init__([api_type |-> ApiTypeStr(init_params.api_type),
                 api_params |-> init_params.api_params,
                 token |-> IF init_params.token # None
                           THEN Some(secret_from_dict(Get(init_params.token))) ELSE None,
                 generation_kwargs |-> Some(init_params.generation_kwargs),
                 stop_words |-> None,
                 streaming_callback |->
                     IF init_params.streaming_callback # None
                     THEN Some(deserialize_callable(Get(init_params.streaming_callback)))
                     ELSE None,
                 tools |-> deserialize_tools_or_toolset(init_params.tools)],
                env)

\* A merge in which the instance defaults win over the call-time overrides.
RunMergedKwargsDefaultsWin(component, generation_kwargs_arg) ==
    DictMerge(IF generation_kwargs_arg # None THEN Get(generation_kwargs_arg) ELSE EmptyDict,
              component.generation_kwargs)

\* Lines 414-415 and 501 / 526: the generation parameters passed to chat_completion.
RunMergedKwargs(component, generation_kwargs_arg) ==
    DictMerge(component.generation_kwargs,
              IF generation_kwargs_arg # None THEN Get(generation_kwargs_arg) ELSE EmptyDict)

\* -------------------------------------------------- arguments of the constructor
ApiTypeArgs ==
    { ApiTypeStr("serverless_inference_api"), ApiTypeStr("inference_endpoints"),
      ApiTypeStr("text_generation_inference"), ApiTypeStr("openai"),
      ApiTypeEnum("INFERENCE_ENDPOINTS") }

ApiParamsArgs ==
    { EmptyDict,
      [model |-> "org/chat-model"],
      [model |-> "org/no-such-model"],
      [url |-> "https://host/v1"],
      [url |-> "host/v1"],
      [model |-> "org/chat-model", url |-> "http://localhost:8080", timeout |-> "30"] }

TokenArgs == { None, Some(EnvVarSecret) }

Environments == { None, Some("hf_secret_A"), Some("hf_secret_B") }

GenerationKwargsArgs ==
    { None, Some(EmptyDict), Some([temperature |-> 1]),
      Some([stop |-> <<"END">>, max_tokens |-> 64]) }

StopWordsArgs == { None, Some(<<"STOP">>) }

ToolsAndCallbackArgs ==
    { <<None, None>>, <<None, Some("init_callback")>>, <<Some(<<"t1", "t2">>), None>>,
      <<Some(<<"t1">>), Some("init_callback")>>, <<Some(<<"t1", "t1">>), None>> }

ConstructorArgs ==
    { [api_type |-> a, api_params |-> p, token |-> t, generation_kwargs |-> g,
       stop_words |-> w, tools |-> tc[1], streaming_callback |-> tc[2]] :
        a \in ApiTypeArgs, p \in ApiParamsArgs, t \in TokenArgs, g \in GenerationKwargsArgs,
        w \in StopWordsArgs, tc \in ToolsAndCallbackArgs }

\* How many calls of run are followed on one component.
MaxCalls == 2

\* generation_kwargs given at a call.
RunGenerationKwargsArgs ==
    { None, Some(EmptyDict), Some([temperature |-> 2]),
      Some([stop |-> <<"HALT">>, top_p |-> 1]) }

\* ----------------------------------- specification: construction and serialization
InitHF ==
    /\ self = [tools |-> None, streaming_callback |-> None]
    /\ ComponentIdle
    /\ ConverterIdle
    /\ MapperIdle
    /\ init_args \in ConstructorArgs
    /\ environ \in Environments
    /\ built = None
    /\ init_error = ""
    /\ serialized = None
    /\ restored = None
    /\ sent_kwargs = <<>>
    /\ caller_kwargs = init_args.generation_kwargs
    /\ second = None
    /\ init_pc = "new"

\* HuggingFaceAPIChatGenerator(**init_args) returns or raises. Every raise
\* comes before line 337, so a failed construction leaves the caller's object.
Construct ==
    /\ init_pc = "new"
    /\ LET result == __init__(init_args, environ)
       IN /\ built' = result.component
          /\ init_error' = result.error
          /\ init_pc' = IF result.ok THEN "built" ELSE "failed"
          /\ caller_kwargs' = IF result.ok
                              THEN InitCallerKwargs(caller_kwargs, init_args.stop_words)
                              ELSE caller_kwargs
    /\ UNCHANGED <<init_args, environ, serialized, restored, sent_kwargs, second,
                   varsC, varsT, varsF>>

\* A second HuggingFaceAPIChatGenerator(...) with the same generation_kwargs
\* object and its own stop_words. The list under "stop" is shared by the
\* caller's object and both components (lines 337-339, 344).
ConstructAgain(stop_words) ==
    /\ init_pc = "built"
    /\ LET args == [init_args EXCEPT !.generation_kwargs = caller_kwargs,
                                     !.stop_words = stop_words]
           result == __init__(args, environ)
           after == InitCallerKwargs(caller_kwargs, stop_words)
       IN /\ second' = result.component
          /\ caller_kwargs' = after
          /\ built' = IF SharesStopList(caller_kwargs)
                      THEN Some([Get(built) EXCEPT !.generation_kwargs =
                                     DictSet(@, "stop", Get(after).stop)])
                      ELSE built
    /\ init_pc' = "rebuilt"
    /\ UNCHANGED <<init_args, environ, init_error, serialized, restored, sent_kwargs,
                   varsC, varsT, varsF>>

\* component.to_dict()
ToDict ==
    /\ init_pc = "built"
    /\ serialized' = Some(to_dict(Get(built)))
    /\ init_pc' = "serialized"
    /\ UNCHANGED <<init_args, environ, built, init_error, restored, sent_kwargs,
                   caller_kwargs, second,
                   varsC, varsT, varsF>>

\* HuggingFaceAPIChatGenerator.from_dict(serialized)
FromDict ==
    /\ init_pc = "serialized"
    /\ LET result == from_dict(Get(serialized), environ)
       IN /\ restored' = result.component
          /\ init_error' = result.error
    /\ init_pc' = "restored"
    /\ UNCHANGED <<init_args, environ, built, serialized, sent_kwargs, caller_kwargs, second,
                   varsC, varsT, varsF>>

\* A call that keeps the merged generation parameters as the instance's own.
RunGenerationKwargsUpdatesDefaults(generation_kwargs_arg, raises) ==
    /\ init_pc \in {"built", "called"}
    /\ Len(sent_kwargs) < MaxCalls
    /\ sent_kwargs' = Append(sent_kwargs,
                             [generation_kwargs |-> generation_kwargs_arg,
                              chat_completion |->
                                  RunMergedKwargs(Get(built), generation_kwargs_arg),
                              raised |-> raises])
    /\ built' = Some([Get(built) EXCEPT !.generation_kwargs =
                          RunMergedKwargs(Get(built), generation_kwargs_arg)])
    /\ init_pc' = "called"
    /\ UNCHANGED <<init_args, environ, init_error, serialized, restored,
                   caller_kwargs, second, varsC, varsT, varsF>>

\* component.run(messages, generation_kwargs=...) as far as the generation
\* parameters of its chat_completion request.
\* The call returns or raises (raises) once the request has been issued.
RunGenerationKwargs(generation_kwargs_arg, raises) ==
    /\ init_pc \in {"built", "called"}
    /\ Len(sent_kwargs) < MaxCalls
    /\ sent_kwargs' = Append(sent_kwargs,
                             [generation_kwargs |-> generation_kwargs_arg,
                              chat_completion |->
                                  RunMergedKwargs(Get(built), generation_kwargs_arg),
                              raised |-> raises])
    /\ init_pc' = "called"
    /\ UNCHANGED <<init_args, environ, built, init_error, serialized, restored,
                   caller_kwargs, second, varsC, varsT, varsF>>

NextHF ==
    \/ Construct
    \/ ToDict
    \/ FromDict
    \/ \E w \in StopWordsArgs : ConstructAgain(w)
    \/ \E g \in RunGenerationKwargsArgs, r \in BOOLEAN : RunGenerationKwargs(g, r)

SpecHF == InitHF /\ [][NextHF]_vars

\* =========================================================================
\* Claims
\* =========================================================================

\* The (tool_name, id) pairs of emitted ToolCalls / of vendor records.
EmittedKeys(tool_calls) == [i \in 1..Len(tool_calls) |-> <<tool_calls[i].tool_name, tool_calls[i].id>>]
InputKeys(hfapi_tool_calls) ==
    [i \in 1..Len(hfapi_tool_calls) |->
        <<hfapi_tool_calls[i].function.name, hfapi_tool_calls[i].id>>]

\* a is obtained from b by deleting elements (greedy left-to-right matching).
RECURSIVE IsSubsequence(_, _)
IsSubsequence(a, b) ==
    IF a = <<>> THEN TRUE
    ELSE IF b = <<>> THEN FALSE
    ELSE IF a[1] = b[1] THEN IsSubsequence(Tail(a), Tail(b))
    ELSE IsSubsequence(a, Tail(b))

TcInputList == IF IsNone(tc_input) THEN <<>> ELSE Get(tc_input)

\* -------------------------------------------------------------- the component
InCall == ~IsNone(call)

\* The invocation took the streaming path: its request asked for a stream.
Streamed == requests # <<>> /\ requests[1].stream

ConfigurationErrors == { ToolsStreamingError, DuplicateToolsError, CallbackModeError }

\* The content an event contributes: that of its first choice, "" when the event
\* has no choice or the delta no content.
EventContent(event) ==
    IF Len(event.choices) = 0 THEN ""
    ELSE IF IsNone(event.choices[1].delta.content) THEN ""
    ELSE Get(event.choices[1].delta.content)

RECURSIVE ConcatEventContents(_)
ConcatEventContents(events) ==
    IF events = <<>> THEN ""
    ELSE EventContent(events[1]) \o ConcatEventContents(Tail(events))

\* C1 (as claimed): whenever the effective tool list of a call is non-empty and a
\* streaming callback is supplied (at the call or as the instance default), the
\* call raises a configuration error and issues no vendor request.
C1_ToolsWithCallbackRejected ==
    ( /\ InCall
      /\ ToolsTruthy(ToolsOr(Get(call).tools, self.tools))
      /\ (~IsNone(Get(call).streaming_callback) \/ ~IsNone(self.streaming_callback)) )
    => /\ requests = <<>>
       /\ pc = "done" => (outcome.kind = "raised" /\ outcome.error \in ConfigurationErrors)

\* C2: a streaming turn of N >= 1 events that ends without error returns exactly
\* one Message whose text is the concatenation, in event order, of the contents
\* of the N events (an event without choices or without delta content gives "").
C2_StreamingTextIsConcatenation ==
    (pc = "done" /\ Streamed /\ IsNone(fault) /\ Len(api_output) >= 1)
    => /\ outcome.kind = "returned"
       /\ Len(outcome.replies) = 1
       /\ outcome.replies[1].text = Some(ConcatEventContents(api_output))

\* C2 witness: a returned streaming turn of three events, one of them without
\* choices, whose text is "ba".
C2_Witness ==
    /\ pc = "done"
    /\ Streamed
    /\ outcome.kind = "returned"
    /\ Len(api_output) = 3
    /\ \E i \in 1..3 : Len(api_output[i].choices) = 0
    /\ outcome.replies[1].text = Some("ba")

\* What holds of the callback invocations in every state of a streaming turn.
C3_Order ==
    Streamed =>
        /\ Len(streaming_chunks) = Len(api_output)
        /\ Len(callback_log) <= Len(api_output)
        /\ Len(api_output) <= Len(callback_log) + 1
        /\ \A i \in 1..Len(callback_log) :
              /\ callback_log[i].callback = frame.streaming_callback
              /\ callback_log[i].chunk =
                     _convert_chat_completion_stream_output_to_streaming_chunk(
                         api_output[i], SubSeq(streaming_chunks, 1, i - 1))
        /\ (outcome.kind = "returned" => Len(callback_log) = Len(api_output))

\* What holds of every step: an event is pulled only when every event before it
\* has been handed to the callback, and the callback is invoked only before the
\* fold, with the event just pulled.
C3_Step ==
    /\ Len(api_output') > Len(api_output) => Len(callback_log) = Len(api_output)
    /\ Len(callback_log') > Len(callback_log) =>
          /\ Len(callback_log') = Len(callback_log) + 1
          /\ Len(callback_log') = Len(api_output)
          /\ outcome.kind = "none"

\* C3: on the streaming path the callback is invoked exactly once per vendor
\* event, in event order, with the chunk translated from that event, before the
\* next event is pulled and before the fold into the final Message.
C3_CallbackOncePerEventInOrder == [][C3_Step /\ C3_Order']_vars

\* C3 witness: the third event has been pulled after two callback invocations.
C3_Witness ==
    /\ Streamed
    /\ Len(api_output) = 3
    /\ Len(callback_log) = 2
    /\ callback_log[1].chunk # callback_log[2].chunk

\* A reply that is a whole Message: it carries usage metadata and, of a
\* streaming turn, it was built after every event pulled had been translated
\* and handed to the callback.
FullyBuilt(message) ==
    /\ ~IsNone(MetaUsage(message.meta))
    /\ Streamed =>
          /\ Len(streaming_chunks) = Len(api_output)
          /\ Len(callback_log) = Len(api_output)

\* C4: a call ends in exactly one of two ways: it returns replies that are whole
\* Messages, or it raises and returns nothing. When the vendor stream or the
\* callback fails, the call raises: no Message built from the chunks received
\* before the failure is returned.
C4_ReturnsWholeOrRaises ==
    /\ pc # "done" => outcome = NoOutcome
    /\ pc = "done" =>
          /\ outcome.kind \in {"returned", "raised"}
          /\ outcome.kind = "raised" => outcome.replies = <<>> /\ outcome.error # ""
          /\ outcome.kind = "returned" =>
                /\ IsNone(fault)
                /\ \A i \in 1..Len(outcome.replies) : FullyBuilt(outcome.replies[i])
          /\ ~IsNone(fault) => outcome.kind = "raised"

\* C4 witness: the callback failed on the third chunk of a streaming turn and
\* the call raised.
C4_Witness ==
    /\ pc = "done"
    /\ Streamed
    /\ fault = Some(CallbackError)
    /\ Len(streaming_chunks) = 3
    /\ outcome.kind = "raised"

\* C5: an invocation issues at most one vendor request: exactly one when the
\* call-entry validation passes, none when it fails. After a transport failure
\* the invocation has ended with that failure, unchanged, and one request.
C5_AtMostOneRequest ==
    /\ Len(requests) <= 1
    /\ pc = "done" =>
          Len(requests) =
              IF outcome.kind = "raised" /\ outcome.error \in ConfigurationErrors
              THEN 0 ELSE 1
    /\ (~IsNone(fault) /\ Get(fault) \in TransportErrors) =>
          /\ pc = "done"
          /\ outcome = Raised(Get(fault))
          /\ Len(requests) = 1

\* C5 witness: a non-streaming request failed in transport.
C5_Witness ==
    /\ pc = "done"
    /\ ~Streamed
    /\ fault = Some("ConnectionError")
    /\ Len(requests) = 1
    /\ outcome = Raised("ConnectionError")

\* C6 (as claimed): in every streaming turn the first chunk has start = true and
\* every later chunk has start = false, whatever the first event carries.
C6_FirstChunkStarts ==
    Streamed =>
        \A i \in 1..Len(streaming_chunks) : streaming_chunks[i].start <=> (i = 1)

\* C6 (amended): in every streaming turn the first chunk has start = true
\* exactly when the first event carries at least one choice, and every later
\* chunk has start = false.
C6_FirstChoiceChunkStarts ==
    Streamed =>
        \A i \in 1..Len(streaming_chunks) :
            streaming_chunks[i].start <=> (i = 1 /\ Len(api_output[1].choices) > 0)

\* C6 witness: three chunks of events that all carry a choice; only the first
\* has start = true.
C6_Witness ==
    /\ Streamed
    /\ Len(streaming_chunks) = 3
    /\ \A i \in 1..3 : Len(api_output[i].choices) > 0
    /\ streaming_chunks[1].start
    /\ ~streaming_chunks[2].start
    /\ ~streaming_chunks[3].start

NoEventCarriesUsage == \A i \in 1..Len(api_output) : IsNone(api_output[i].usage)

\* C7: on the streaming path, when no vendor event of the turn carries a usage
\* summary, the usage of the returned Message is {prompt_tokens: 0,
\* completion_tokens: 0}.
C7_ZeroUsageWhenNoneSent ==
    (pc = "done" /\ Streamed /\ outcome.kind = "returned" /\ NoEventCarriesUsage)
    => /\ Len(outcome.replies) = 1
       /\ MetaUsage(outcome.replies[1].meta) =
              Some([prompt_tokens |-> 0, completion_tokens |-> 0])

\* C7 witness: a returned streaming turn of two events without usage, one of
\* them without choices.
C7_Witness ==
    /\ pc = "done"
    /\ Streamed
    /\ outcome.kind = "returned"
    /\ Len(api_output) = 2
    /\ NoEventCarriesUsage
    /\ Len(api_output[2].choices) = 0
    /\ MetaUsage(outcome.replies[1].meta) = Some([prompt_tokens |-> 0, completion_tokens |-> 0])

\* C8: on the non-streaming path a response whose choices are absent or empty
\* gives {"replies": []} without an error, and a response with at least one
\* choice gives exactly one Message, built from the first choice.
C8_RepliesFromFirstChoice ==
    (pc = "done" /\ ~IsNone(api_chat_output)) =>
        LET choices == Get(api_chat_output).choices IN
        /\ outcome.kind = "returned"
        /\ IF IsNone(choices) \/ Get(choices) = <<>>
           THEN outcome.replies = <<>>
           ELSE /\ Len(outcome.replies) = 1
                /\ outcome.replies[1].text = Get(choices)[1].message.content
                /\ outcome.replies[1].meta.index = Get(choices)[1].index
                /\ outcome.replies[1].meta.finish_reason = Get(choices)[1].finish_reason
                /\ outcome.replies[1].tool_calls =
                       _convert_hfapi_tool_calls(Get(choices)[1].message.tool_calls).tool_calls

\* C8 witness: a response with two choices was received; the reply carries the
\* text and index of the first.
C8_Witness ==
    /\ pc = "done"
    /\ ~IsNone(api_chat_output)
    /\ ~IsNone(Get(api_chat_output).choices)
    /\ Len(Get(Get(api_chat_output).choices)) = 2
    /\ Len(outcome.replies) = 1
    /\ outcome.replies[1].text = Some("other")
    /\ outcome.replies[1].meta.index = 1


\* C9 (as claimed): every ToolCall emitted by _convert_hfapi_tool_calls has
\* arguments that are a non-empty mapping, whatever the vendor sent (also JSON
\* text that decodes to a list, a number, a string or true).
C9_ArgumentsAreNonEmptyMapping ==
    tc_pc = "done" =>
        \A i \in 1..Len(tc_result.tool_calls) :
            /\ tc_result.tool_calls[i].arguments.t = "dict"
            /\ tc_result.tool_calls[i].arguments.dict # <<>>

\* C10: the output of _convert_hfapi_tool_calls is an order-preserving
\* subsequence of its input: the (name, id) pairs of the emitted ToolCalls are
\* obtained from those of the input records by deleting records, so the output
\* is never longer than the input, and an absent or empty input gives [].
C10_OutputIsSubsequence ==
    tc_pc = "done" =>
        /\ IsSubsequence(EmittedKeys(tc_result.tool_calls), InputKeys(TcInputList))
        /\ Len(tc_result.tool_calls) <= Len(TcInputList)
        /\ (TcInputList = <<>> => tc_result.tool_calls = <<>>)

\* C10 witness: a two-record payload was converted, both records were emitted
\* and they differ in name and identifier.
C10_Witness ==
    /\ tc_pc = "done"
    /\ Len(TcInputList) = 2
    /\ Len(tc_result.tool_calls) = 2
    /\ tc_result.tool_calls[1].id # tc_result.tool_calls[2].id
    /\ tc_result.tool_calls[1].tool_name # tc_result.tool_calls[2].tool_name

\* A record whose arguments the converter cannot use: a string that is not valid
\* JSON, or a value that is neither a mapping nor a string.
BadArguments(hfapi_tc) ==
    LET a == hfapi_tc.function.arguments IN
    \/ a.t = "str" /\ ~json_loads(a.str).ok
    \/ a.t \notin {"dict", "str"}

\* A record whose arguments are, or decode to, a non-empty mapping.
MappingArguments(hfapi_tc) ==
    LET a == hfapi_tc.function.arguments IN
    \/ a.t = "dict" /\ a.dict # <<>>
    \/ /\ a.t = "str"
       /\ json_loads(a.str).ok
       /\ json_loads(a.str).val.t = "dict"
       /\ json_loads(a.str).val.dict # <<>>

\* C11: _convert_hfapi_tool_calls returns for every payload (it never raises);
\* each record whose arguments are a string that is not valid JSON, or neither a
\* mapping nor a string, gives no ToolCall and exactly one warning, naming that
\* record, and the other records of the payload are still processed: the
\* warnings are those of the bad records in input order, and every record with
\* a non-empty mapping is emitted, also after a bad record.
C11_BadRecordsSkippedWithOneWarning ==
    tc_pc = "done" =>
        LET bad == SelectSeq(TcInputList, BadArguments)
            good == SelectSeq(TcInputList, MappingArguments)
        IN /\ tc_result.warnings =
                  [i \in 1..Len(bad) |->
                      [kind |-> IF bad[i].function.arguments.t = "str"
                                THEN "malformed JSON" ELSE "invalid type",
                       id |-> bad[i].id, name |-> bad[i].function.name]]
           /\ Len(tc_result.tool_calls) <= Len(TcInputList) - Len(bad)
           /\ IsSubsequence(InputKeys(good), EmittedKeys(tc_result.tool_calls))

\* C11 witness: the first record of a payload carries malformed JSON, the second
\* a mapping; one warning was logged and the second record was emitted.
C11_Witness ==
    /\ tc_pc = "done"
    /\ Len(TcInputList) = 2
    /\ BadArguments(TcInputList[1])
    /\ TcInputList[1].function.arguments.t = "str"
    /\ MappingArguments(TcInputList[2])
    /\ Len(tc_result.warnings) = 1
    /\ Len(tc_result.tool_calls) = 1
    /\ tc_result.tool_calls[1].id = TcInputList[2].id

\* C12: _map_hf_finish_reason_to_haystack returns for every choice (it never
\* raises) and follows the table: an absent vendor reason gives None; a present
\* reason on a choice with tool-call evidence (delta.tool_calls or
\* delta.tool_call_id present) gives "tool_calls" whatever the vendor string;
\* otherwise "length" gives "length" and every other string, "eos_token" and
\* "stop_sequence" included, gives "stop".
C12_FinishReasonTable ==
    fr_pc = "done" =>
        LET reason == fr_choice.finish_reason
            evidence == fr_choice.delta.tool_calls # None \/ fr_choice.delta.tool_call_id # None
        IN /\ fr_result \in { None, Some("stop"), Some("length"), Some("tool_calls") }
           /\ (reason = None) => fr_result = None
           /\ (reason # None /\ evidence) => fr_result = Some("tool_calls")
           /\ (reason = Some("length") /\ ~evidence) => fr_result = Some("length")
           /\ (reason \in { Some("eos_token"), Some("stop_sequence") } /\ ~evidence)
                 => fr_result = Some("stop")
           /\ (reason \notin { None, Some("length") } /\ ~evidence) => fr_result = Some("stop")

\* C12 witness: the vendor reason "eos_token" on a choice that carries a
\* tool-call identifier was mapped to "tool_calls".
C12_Witness ==
    /\ fr_pc = "done"
    /\ fr_choice.finish_reason = Some("eos_token")
    /\ fr_choice.delta.tool_calls = None
    /\ fr_choice.delta.tool_call_id # None
    /\ fr_result = Some("tool_calls")

\* C13: for every vendor event with zero choices the translator returns a chunk
\* whose content is "", whose usage is None when the event carries no usage and
\* the event's prompt and completion token counts when it carries one, and
\* which has no index and no finish reason.
C13_ZeroChoicesChunk ==
    Streamed =>
        \A i \in 1..Len(streaming_chunks) :
            Len(api_output[i].choices) = 0 =>
                /\ streaming_chunks[i].content = ""
                /\ "usage" \in DOMAIN streaming_chunks[i].meta
                /\ streaming_chunks[i].meta.usage =
                       IF api_output[i].usage = None THEN None
                       ELSE Some([prompt_tokens |-> Get(api_output[i].usage).prompt_tokens,
                                  completion_tokens |->
                                      Get(api_output[i].usage).completion_tokens])
                /\ streaming_chunks[i].index = None
                /\ streaming_chunks[i].finish_reason = None

\* C13 witness: the second event of a turn has no choices and carries the usage
\* (3, 5); the third has no choices and no usage.
C13_Witness ==
    /\ Streamed
    /\ Len(streaming_chunks) = 3
    /\ Len(api_output[2].choices) = 0
    /\ streaming_chunks[2].meta.usage = Some([prompt_tokens |-> 3, completion_tokens |-> 5])
    /\ Len(api_output[3].choices) = 0
    /\ streaming_chunks[3].meta.usage = None

\* The effective tools and callback of the invocation in progress, and the three
\* conditions tested at call entry.
EffectiveTools == ToolsOr(Get(call).tools, self.tools)
EffectiveCallback ==
    IF Get(call).streaming_callback # None THEN Get(call).streaming_callback
    ELSE self.streaming_callback
HasDuplicateNames == _check_duplicate_tool_names(ToolsList(EffectiveTools))
HasConflict == ToolsTruthy(EffectiveTools) /\ self.streaming_callback # None
HasModeMismatch ==
    /\ EffectiveCallback # None
    /\ IsCoroutine(Get(EffectiveCallback)) # (Get(call).method = "run_async")

\* C14 (as claimed): duplicate tool names are checked first, so every call whose
\* effective tools carry a duplicate name is rejected with the
\* duplicate-tool-names error, also when it violates the tools-with-callback
\* check.
C14_DuplicatesCheckedFirst ==
    (InCall /\ HasDuplicateNames) => outcome = Raised(DuplicateToolsError)

\* C14 (amended): at call entry the tools-with-callback conflict (effective
\* tools non-empty and an instance-default callback) is checked first, then
\* duplicate tool names, then the callback resolution; a call is rejected with
\* the error of the first check it fails, before any vendor request, and a call
\* that fails the first two is rejected with the tools-with-streaming error.
C14_ConflictCheckedFirst ==
    InCall =>
        /\ HasConflict => outcome = Raised(ToolsStreamingError)
        /\ (~HasConflict /\ HasDuplicateNames) => outcome = Raised(DuplicateToolsError)
        /\ (~HasConflict /\ ~HasDuplicateNames /\ HasModeMismatch)
              => outcome = Raised(CallbackModeError)
        /\ (~HasConflict /\ ~HasDuplicateNames /\ ~HasModeMismatch)
              => ~(outcome.kind = "raised" /\ outcome.error \in ConfigurationErrors)
        /\ (outcome.kind = "raised" /\ outcome.error \in ConfigurationErrors)
              => requests = <<>>

\* C14 witness: a call with the tools [t1, t1] on a component with a default
\* callback was rejected with the tools-with-streaming error.
C14_Witness ==
    /\ InCall
    /\ HasConflict
    /\ HasDuplicateNames
    /\ pc = "done"
    /\ outcome = Raised(ToolsStreamingError)

\* Where an invocation stands on the streaming / on the non-streaming path.
StreamingPcs ==
    { "_run_streaming", "_run_streaming:for", "_run_streaming:callback",
      "_run_streaming_async", "_run_streaming_async:for", "_run_streaming_async:callback" }
NonStreamingPcs ==
    { "_run_non_streaming", "_run_non_streaming:output",
      "_run_non_streaming_async", "_run_non_streaming_async:output" }

RejectedAtEntry ==
    pc = "done" /\ outcome.kind = "raised" /\ outcome.error \in ConfigurationErrors

\* C15: the effective callback of a call is the call-time callback when one is
\* given and the instance default otherwise. A call that passes the entry checks
\* takes the streaming path exactly when the effective callback is present (it
\* is the callback handed to the streaming method and invoked per chunk) and
\* the non-streaming path otherwise. A callback whose sync/async kind does not
\* match the call is rejected before any vendor request.
C15_EffectiveCallbackSelectsPath ==
    InCall =>
        /\ HasModeMismatch => (RejectedAtEntry /\ requests = <<>>)
        /\ ~RejectedAtEntry =>
              /\ frame.streaming_callback = EffectiveCallback
              /\ pc \in StreamingPcs => EffectiveCallback # None
              /\ pc \in NonStreamingPcs => EffectiveCallback = None
              /\ pc \in StreamingPcs \cup NonStreamingPcs \cup {"done"}
              /\ requests # <<>> => (requests[1].stream <=> EffectiveCallback # None)
              /\ \A i \in 1..Len(callback_log) :
                     callback_log[i].callback = EffectiveCallback

\* C15 witness: run on a component whose default is init_callback, called with
\* the call-time callback "callback", streamed and invoked "callback".
C15_Witness ==
    /\ InCall
    /\ self.streaming_callback = Some("init_callback")
    /\ Get(call).streaming_callback = Some("callback")
    /\ Streamed
    /\ Len(callback_log) >= 1
    /\ callback_log[1].callback = Some("callback")

\* C18: the two call shapes are never mixed within one invocation: run issues
\* its request on the synchronous handle _client, runs only synchronous
\* methods and calls a synchronous callback directly; run_async issues its
\* request on _async_client, runs only asynchronous methods and awaits an
\* asynchronous callback.
C18_CallShapesNeverMixed ==
    InCall =>
        LET async == Get(call).method = "run_async" IN
        /\ \A i \in 1..Len(requests) :
               requests[i].client = IF async THEN "_async_client" ELSE "_client"
        /\ \A i \in 1..Len(callback_log) :
               /\ callback_log[i].awaited <=> async
               /\ IsCoroutine(Get(callback_log[i].callback)) <=> async
        /\ async => pc \notin { "_run_streaming", "_run_streaming:for",
                                "_run_streaming:callback", "_run_non_streaming",
                                "_run_non_streaming:output" }
        /\ ~async => pc \notin { "_run_streaming_async", "_run_streaming_async:for",
                                 "_run_streaming_async:callback",
                                 "_run_non_streaming_async",
                                 "_run_non_streaming_async:output" }

\* C18 witness: a run_async invocation issued its request on _async_client and
\* awaited its asynchronous callback twice.
C18_Witness ==
    /\ InCall
    /\ Get(call).method = "run_async"
    /\ Len(requests) = 1
    /\ requests[1].client = "_async_client"
    /\ Len(callback_log) = 2
    /\ callback_log[2].awaited
    /\ IsCoroutine(Get(callback_log[2].callback))

\* An event whose first choice carries tool-call fragments or an identifier.
CarriesToolCallEvidence(event) ==
    /\ Len(event.choices) > 0
    /\ \/ event.choices[1].delta.tool_calls # None
       \/ event.choices[1].delta.tool_call_id # None

\* C21: on the streaming path the request carries no tool definition and the
\* returned Message has an empty tool-call list, whatever the events of the
\* turn carry (also tool-call fragments or a tool-call identifier).
C21_NoToolsOnStreamingPath ==
    Streamed =>
        /\ \A i \in 1..Len(requests) : requests[i].tools = None
        /\ outcome.kind = "returned" =>
              \A i \in 1..Len(outcome.replies) : outcome.replies[i].tool_calls = <<>>

\* C21 witness: a streaming turn called with tools, in which an event carried
\* tool-call evidence, returned a Message without tool calls.
C21_Witness ==
    /\ Streamed
    /\ ToolsTruthy(EffectiveTools)
    /\ outcome.kind = "returned"
    /\ \E i \in 1..Len(api_output) : CarriesToolCallEvidence(api_output[i])
    /\ Len(outcome.replies) = 1
    /\ outcome.replies[1].tool_calls = <<>>

\* A vendor finish-reason that is present, is none of the three strings the
\* mapper knows, and sits on a choice without tool-call evidence.
UnrecognizedFinishReason(choice) ==
    /\ choice.finish_reason # None
    /\ Get(choice.finish_reason) \notin { "length", "eos_token", "stop_sequence" }
    /\ choice.delta.tool_calls = None
    /\ choice.delta.tool_call_id = None

\* C22 (as claimed): every vendor-data anomaly is logged at warning level and
\* recovered locally; in particular, when _map_hf_finish_reason_to_haystack
\* has mapped an unrecognized finish-reason string, a warning has been logged.
C22_UnrecognizedFinishReasonLogged ==
    (fr_pc = "done" /\ UnrecognizedFinishReason(fr_choice)) => log # <<>>

\* C23: construction rejects a non-empty default tool set together with a
\* default callback, and a tool set with duplicate names; so the component never
\* has both non-empty default tools and a default callback, nor default tools
\* with a duplicate name, before, during and after any sequence of run and
\* run_async calls.
C23_ToolsAndCallbackExclusive ==
    /\ ~(ToolsTruthy(self.tools) /\ self.streaming_callback # None)
    /\ ~_check_duplicate_tool_names(ToolsList(self.tools))

\* C23 witness: a component with default tools has served a call that brought
\* its own callback and streamed; it still has its tools and no callback.
C23_Witness ==
    /\ pc = "done"
    /\ InCall
    /\ Streamed
    /\ Get(call).streaming_callback # None
    /\ ToolsTruthy(self.tools)
    /\ self.streaming_callback = None

\* C24 (as claimed): tools passed to run or run_async override the tools set at
\* construction: the tool definitions of the request are exactly those of the
\* call-time tools, in their order, and none when the call-time value is an
\* empty list; the instance tools are sent only when no tools are passed.
C24_CallTimeToolsOverride ==
    (InCall /\ requests # <<>> /\ ~Streamed) =>
        requests[1].tools =
            IF Get(call).tools # None
            THEN _convert_tools_to_hfapi_tools(Get(call).tools)
            ELSE _convert_tools_to_hfapi_tools(self.tools)

\* C25: for every vendor event with at least one choice, the
\* translated chunk has index 0 exactly when the chunk's finish-reason is absent
\* and no index exactly when the chunk's finish-reason is present, for every
\* vendor finish-reason value, the empty string included.
C25_IndexIffNoChunkFinishReason ==
    Streamed =>
        \A i \in 1..Len(streaming_chunks) :
            Len(api_output[i].choices) > 0 =>
                /\ streaming_chunks[i].index = Some(0)
                       <=> streaming_chunks[i].finish_reason = None
                /\ streaming_chunks[i].index = None
                       <=> streaming_chunks[i].finish_reason # None

\* The positions of the chunks of the turn that carry a usage object.
ChunksWithUsage ==
    { i \in 1..Len(streaming_chunks) : MetaUsage(streaming_chunks[i].meta) # None }

\* C26: on the streaming path, when at least one chunk of the turn carries a
\* usage object, the usage of the returned Message is the usage of the last such
\* chunk, wherever it occurs in the turn, also when chunks without usage follow.
C26_UsageOfLastUsageChunk ==
    (pc = "done" /\ Streamed /\ outcome.kind = "returned" /\ ChunksWithUsage # {}) =>
        LET last == CHOOSE i \in ChunksWithUsage : \A j \in ChunksWithUsage : j <= i
        IN /\ Len(outcome.replies) = 1
           /\ MetaUsage(outcome.replies[1].meta) = streaming_chunks[last].meta.usage
           /\ MetaUsage(outcome.replies[1].meta) =
                  Some([prompt_tokens |-> Get(api_output[last].usage).prompt_tokens,
                        completion_tokens |->
                            Get(api_output[last].usage).completion_tokens])

\* C26 witness: a returned turn whose first chunk carries the usage (3, 5), whose
\* second carries (7, 2) and whose third carries none; the Message has (7, 2).
C26_Witness ==
    /\ pc = "done"
    /\ Streamed
    /\ outcome.kind = "returned"
    /\ Len(streaming_chunks) = 3
    /\ MetaUsage(streaming_chunks[1].meta) = Some([prompt_tokens |-> 3, completion_tokens |-> 5])
    /\ MetaUsage(streaming_chunks[2].meta) = Some([prompt_tokens |-> 7, completion_tokens |-> 2])
    /\ MetaUsage(streaming_chunks[3].meta) = None
    /\ MetaUsage(outcome.replies[1].meta) = Some([prompt_tokens |-> 7, completion_tokens |-> 2])

\* The chunks a turn with these vendor events produces, in order.
RECURSIVE TranslatedTurn(_)
TranslatedTurn(events) ==
    IF events = <<>> THEN <<>>
    ELSE LET earlier == TranslatedTurn(SubSeq(events, 1, Len(events) - 1))
         IN Append(earlier,
                   _convert_chat_completion_stream_output_to_streaming_chunk(
                       events[Len(events)], earlier))

\* How a finished call must have ended, told from what both methods share: the
\* component, the tools, whether the callback's kind fits the method, the
\* vendor's response or events, and what the vendor or the callback raised.
\* The synchronous method's result builders stand for both methods.
OutcomeOfEitherMethod ==
    IF HasConflict THEN Raised(ToolsStreamingError)
    ELSE IF HasDuplicateNames THEN Raised(DuplicateToolsError)
    ELSE IF HasModeMismatch THEN Raised(CallbackModeError)
    ELSE IF fault # None THEN Raised(Get(fault))
    ELSE IF EffectiveCallback # None
    THEN Returned(StreamingReplies(TranslatedTurn(api_output)))
    ELSE Returned(NonStreamingResult(Get(api_chat_output)).replies)

\* C28: run and run_async are equivalent. A finished call of either method, on
\* the same component with the same tools, a callback of the kind its method
\* takes, and the same vendor response, events and errors, raises the same
\* error or returns the same replies, and has handed the same chunks to the
\* callback in the same order.
C28_RunAndRunAsyncEquivalent ==
    (InCall /\ pc = "done") =>
        /\ outcome = OutcomeOfEitherMethod
        /\ [i \in 1..Len(callback_log) |-> callback_log[i].chunk]
               = TranslatedTurn(api_output)
        /\ outcome.kind = "returned" =>
               (requests # <<>> /\ requests[1].tools =
                    (IF EffectiveCallback # None THEN None
                     ELSE _convert_tools_to_hfapi_tools(EffectiveTools)))

\* C28 witness: a call of run_async returned a reply with a tool call and the
\* usage (3, 5) of the vendor's response.
C28_Witness ==
    /\ InCall
    /\ Get(call).method = "run_async"
    /\ pc = "done"
    /\ outcome.kind = "returned"
    /\ Len(outcome.replies) = 1
    /\ outcome.replies[1].tool_calls # <<>>
    /\ MetaUsage(outcome.replies[1].meta) = Some([prompt_tokens |-> 3, completion_tokens |-> 5])

\* ------------------------------------------- construction and serialization
\* C16: the generation parameters a call passes to chat_completion are the
\* instance defaults overlaid key by key with the call-time overrides: every
\* key of the override carries the override's value, every key present only in
\* the defaults carries the default's value, and no other key appears.
C16_OverridesWinKeyByKey ==
    \A i \in 1..Len(sent_kwargs) :
        LET defaults == Get(built).generation_kwargs
            given == sent_kwargs[i].generation_kwargs
            override == IF given = None THEN EmptyDict ELSE Get(given)
            sent == sent_kwargs[i].chat_completion
        IN /\ DOMAIN sent = DOMAIN defaults \cup DOMAIN override
           /\ \A k \in DOMAIN override : sent[k] = override[k]
           /\ \A k \in DOMAIN defaults \ DOMAIN override : sent[k] = defaults[k]

\* C16 witness: defaults {stop: [END, STOP], max_tokens: 64} called with the
\* override {stop: [HALT], top_p: 1} send stop [HALT], max_tokens 64, top_p 1.
C16_Witness ==
    /\ init_pc = "called"
    /\ Get(built).generation_kwargs = [stop |-> <<"END", "STOP">>, max_tokens |-> 64]
    /\ sent_kwargs[1].generation_kwargs = Some([stop |-> <<"HALT">>, top_p |-> 1])
    /\ sent_kwargs[1].chat_completion =
           [stop |-> <<"HALT">>, max_tokens |-> 64, top_p |-> 1]

\* The API variant named by the api_type argument, as its string value.
VariantOfArgs ==
    IF init_args.api_type.kind = "str" THEN init_args.api_type.value
    ELSE EnumValue(init_args.api_type.value)
HostedInference == VariantOfArgs = "serverless_inference_api"
EndpointOrServer == VariantOfArgs \in { "inference_endpoints", "text_generation_inference" }

\* The four cases of the api_type and api_params in which construction must fail.
ListedFailureCase ==
    \/ ~HostedInference /\ ~EndpointOrServer
    \/ HostedInference /\ "model" \notin DOMAIN init_args.api_params
    \/ EndpointOrServer /\ "url" \notin DOMAIN init_args.api_params
    \/ /\ EndpointOrServer
       /\ "url" \in DOMAIN init_args.api_params
       /\ ~is_valid_http_url(init_args.api_params.url)

\* The model of a hosted-inference component does not pass check_valid_model.
ModelRejected ==
    /\ HostedInference
    /\ "model" \in DOMAIN init_args.api_params
    /\ check_valid_model(init_args.api_params.model)

ApiErrors ==
    { UnknownApiTypeError, MissingModelError, InvalidModelError, MissingUrlError,
      InvalidUrlError }

ToolsAndCallbackAccepted == ~InitRaises(init_args.tools, init_args.streaming_callback)

\* C17 (as claimed): construction fails with a configuration error, creating no
\* component and no transport handle, when the api_type string is unknown, the
\* model of a hosted-inference component is missing, the url of a
\* dedicated-endpoint or self-hosted component is missing or is not a valid
\* HTTP URL; in every other case of these parameters construction succeeds.
C17_FailsExactlyInListedCases ==
    init_pc # "new" =>
        /\ ListedFailureCase =>
              (init_pc = "failed" /\ built = None /\ init_error \in ApiErrors)
        /\ (~ListedFailureCase /\ ToolsAndCallbackAccepted) => built # None

\* C17 (amended): as claimed, with one more failure case: the model of a
\* hosted-inference component is rejected by check_valid_model. In every other
\* case of these parameters construction succeeds.
C17_FailsInListedCasesOrModelRejected ==
    init_pc # "new" =>
        /\ (ListedFailureCase \/ ModelRejected) =>
              (init_pc = "failed" /\ built = None /\ init_error \in ApiErrors)
        /\ (~ListedFailureCase /\ ~ModelRejected /\ ToolsAndCallbackAccepted) =>
              /\ built # None
              /\ Get(built)._client.class = "InferenceClient"
              /\ Get(built)._async_client.class = "AsyncInferenceClient"

\* C17 witness: construction of a dedicated-endpoint component with the url
\* "host/v1" failed with the invalid-URL error.
C17_Witness ==
    /\ init_pc = "failed"
    /\ VariantOfArgs = "inference_endpoints"
    /\ "url" \in DOMAIN init_args.api_params
    /\ ~is_valid_http_url(init_args.api_params.url)
    /\ built = None
    /\ init_error = InvalidUrlError

C20_SerializedFormHidesSecret ==
    serialized # None =>
        \A env \in Environments :
            /\ __init__(init_args, env).ok
            /\ to_dict(Get(__init__(init_args, env).component)) = Get(serialized)

\* C20 witness: a component whose client holds the resolved secret hf_secret_A
\* was serialized, with a credential reference in the serialized form.
C20_Witness ==
    /\ serialized # None
    /\ Get(built).token # None
    /\ Get(built)._client.token = Some("hf_secret_A")
    /\ Get(serialized).init_parameters.token # None

\* C27: after construction the instance's stop generation parameter is the stop
\* list given in generation_kwargs (empty if none) followed by the stop_words in
\* their order, max_tokens is the given value or 512 when none was given, and
\* every other given generation parameter is kept unchanged.
C27_StopWordsAndMaxTokensMerged ==
    init_pc = "built" =>
        LET given == IF init_args.generation_kwargs = None THEN EmptyDict
                     ELSE Get(init_args.generation_kwargs)
            words == IF init_args.stop_words = None THEN <<>> ELSE Get(init_args.stop_words)
            kept == Get(built).generation_kwargs
        IN /\ DOMAIN kept = DOMAIN given \cup {"stop", "max_tokens"}
           /\ kept.stop = (IF "stop" \in DOMAIN given THEN given.stop ELSE <<>>) \o words
           /\ kept.max_tokens =
                  IF "max_tokens" \in DOMAIN given THEN given.max_tokens ELSE 512
           /\ \A k \in DOMAIN given \ {"stop", "max_tokens"} : kept[k] = given[k]

\* C27 witness: generation_kwargs {stop: [END], max_tokens: 64} with stop_words
\* [STOP] give stop [END, STOP] and max_tokens 64.
C27_Witness ==
    /\ init_pc = "built"
    /\ init_args.generation_kwargs = Some([stop |-> <<"END">>, max_tokens |-> 64])
    /\ init_args.stop_words = Some(<<"STOP">>)
    /\ Get(built).generation_kwargs = [stop |-> <<"END", "STOP">>, max_tokens |-> 64]

\* The stop_words argument as a list.
StopWordsList(stop_words) == IF stop_words = None THEN <<>> ELSE Get(stop_words)

\* The stop list the caller put in generation_kwargs, empty if there is none.
GivenStop ==
    IF init_args.generation_kwargs # None
       /\ "stop" \in DOMAIN Get(init_args.generation_kwargs)
    THEN Get(init_args.generation_kwargs).stop ELSE <<>>

\* C29: constructing a component leaves the caller's generation_kwargs mapping
\* unchanged, the stop list stored in it included, and two components built
\* from the same generation_kwargs object do not see each other's stop words:
\* the first keeps its stop list, and the second's is the caller's list followed
\* by the second's stop_words alone.
C29_CallerKwargsUnchanged ==
    /\ caller_kwargs = init_args.generation_kwargs
    /\ init_pc = "rebuilt" =>
          /\ Get(built).generation_kwargs.stop
                 = GivenStop \o StopWordsList(init_args.stop_words)
          /\ \E w \in StopWordsArgs :
                 Get(second).generation_kwargs.stop = GivenStop \o StopWordsList(w)

\* C30: run and run_async leave the component's configuration unchanged whether
\* they return or raise: after any sequence of calls the component equals the
\* one construction returned (generation parameters, tools, callback, API
\* variant, api_params), and every call sends the defaults of construction
\* overlaid with its own overrides only.
C30_CallsLeaveConfigurationUnchanged ==
    init_pc = "called" =>
        /\ built = __init__(init_args, environ).component
        /\ \A i \in 1..Len(sent_kwargs) :
               sent_kwargs[i].chat_completion =
                   DictMerge(InitGenerationKwargs(init_args.generation_kwargs,
                                                  init_args.stop_words),
                             IF sent_kwargs[i].generation_kwargs = None THEN EmptyDict
                             ELSE Get(sent_kwargs[i].generation_kwargs))

\* C30 witness: a first call with the override {stop: [HALT], top_p: 1} raised,
\* and a second call without overrides sent the defaults of construction.
C30_Witness ==
    /\ init_pc = "called"
    /\ Len(sent_kwargs) = 2
    /\ sent_kwargs[1].generation_kwargs = Some([stop |-> <<"HALT">>, top_p |-> 1])
    /\ sent_kwargs[1].raised
    /\ sent_kwargs[2].generation_kwargs = None
    /\ sent_kwargs[2].chat_completion = [stop |-> <<"END", "STOP">>, max_tokens |-> 64]
    /\ Get(built).generation_kwargs = [stop |-> <<"END", "STOP">>, max_tokens |-> 64]

====
